---- MODULE Spec2Model ----
(***************************************************************************)
(* TranscodeManager: the process supervisor (package process) and the task *)
(* registry (package task), as interleaved goroutines.                     *)
(*                                                                         *)
(* One step of the model is one critical section or one system call of the *)
(* Go code.  Every goroutine that can run the bodies of start() and stop() *)
(* is a thread with a program counter: API callers, the reconnect timer's  *)
(* goroutine, the goroutine of `go proc.Start()`, and the staler.  The     *)
(* reader/waiter goroutine of each child and the goroutine of              *)
(* `go onExit()` have their own counters.  The build modelled is POSIX     *)
(* (runtime.GOOS != "windows").                                            *)
(***************************************************************************)
EXTENDS Integers, Sequences, FiniteSets, TLC

\* ------------------------------------------------------------------ bounds

MaxProcs == 2       \* supervisors ever constructed by process.New
MaxPid == 2         \* exec.Cmd objects ever created, over all supervisors
MaxEvents == 3      \* API calls issued, plus staler ticks that found the child stale
NCallers == 1       \* concurrent API callers
MaxTasks == 1       \* tasks the registry holds at a time
MaxCalls == 2       \* registry calls issued

Procs == 1..MaxProcs
Pids == 1..MaxPid
Barriers == 1..MaxEvents    \* one sync.WaitGroup per stop(wait=true)

\* ------------------------------------------------------------- the state

VARIABLES
    sup,        \* sup[s]: the fields of process s (see NewProc)
    child,      \* child[p]: the exec.Cmd p and its OS process
    npid,       \* exec.Cmd objects created so far
    th,         \* th[t]: a goroutine that runs Start/Stop/Kill/start/stop
    rw,         \* rw[p]: position of the reader/waiter goroutine of child p
    exitJob,    \* exitJob[p]: the `go p.callbacks.onExit()` of child p's waiter
    wg,         \* wg[b]: counter of the WaitGroup of barrier b
    nwg,        \* barriers created so far
    events,     \* API calls issued and stale ticks found so far
    crashed,    \* a goroutine panicked: the Go program is gone
    tasks,      \* store.tasks: id -> Task
    nproc,      \* supervisors constructed so far
    storeLock,  \* store.mu: the caller that holds it, or NoThread
    op,         \* op[c]: the registry call caller c is in
    calls,      \* registry calls issued so far
    parser,     \* the parser fed by a reader, and the reader's stale clock
    probe,      \* the clock, and what the last call of setState gave
    lastRet     \* lastRet[c]: what caller c's last call returned

vars == <<sup, child, npid, th, rw, exitJob, wg, nwg, events, crashed,
          tasks, nproc, storeLock, op, calls, parser, probe, lastRet>>

procVars == <<sup, child, npid, th, rw, exitJob, wg, nwg, crashed>>
storeVars == <<tasks, nproc, storeLock, op, calls, parser, probe>>

\* ------------------------------------------------------------- threads

NoThread == <<"none", 0>>
Callers == {<<"caller", i>> : i \in 1..NCallers}
Timers == {<<"timer", s>> : s \in Procs}
Starters == {<<"starter", s>> : s \in Procs}
Stalers == {<<"staler", p>> : p \in Pids}
Threads == Callers \cup Timers \cup Starters \cup Stalers
Waiters == {<<"waiter", p>> : p \in Pids}

IdlePc(t) == IF t \in Callers THEN "idle" ELSE "none"

\* cmd: the command whose signal failed in stop()
NewThread(t) ==
    [pc |-> IdlePc(t), fn |-> "none", sup |-> 0, wait |-> FALSE, wg |-> 0,
     cmd |-> 0]

\* ------------------------------------------------- the state machine

stateFinished == "finished"
stateStarting == "starting"
stateRunning == "running"
stateFinishing == "finishing"
stateFailed == "failed"
stateKilled == "killed"

StateTypes == {stateFinished, stateStarting, stateRunning, stateFinishing,
               stateFailed, stateKilled}

\* stateType.IsRunning
IsRunning(st) == st \in {stateStarting, stateRunning, stateFinishing}

\* States: the cumulative counters, all zero after New
ZeroStates ==
    [finished |-> 0, starting |-> 0, running |-> 0, finishing |-> 0,
     failed |-> 0, killed |-> 0]

\* a state machine that accepts every change of state
AcceptsAny(from) == StateTypes \ {from}

\* the targets setState accepts from each state (the switch of setState)
Accepts(from) ==
    CASE from = stateFinished -> {stateStarting}
      [] from = stateStarting -> {stateFinishing, stateRunning, stateFailed}
      [] from = stateRunning -> {stateFinished, stateFinishing, stateFailed, stateKilled}
      [] from = stateFinishing -> {stateFinished, stateFailed, stateKilled}
      [] from \in {stateFailed, stateKilled} -> {stateStarting}
      [] OTHER -> {}

\* setStateAt with the counter of the state that is left incremented
setStateCountsFrom(P, to, now) ==
    LET ok == to \in Accepts(P.state) IN
    [P |-> IF ok
           THEN [P EXCEPT !.state = to, !.states[P.state] = @ + 1, !.time = now]
           ELSE P,
     err |-> ~ok,
     fired |-> IF ok /\ P.cbState THEN <<[from |-> P.state, to |-> to]>> ELSE <<>>]

\* process.setState at time now: on an accepted target the state changes, the
\* target's counter is incremented, the time is recorded and, when
\* Config.OnStateChange is set, `go onStateChange(prev, new)` is run;
\* otherwise an error is returned and nothing changes.  P: the process
\* afterwards, err: an error is returned, fired: the callbacks started
setStateAt(P, to, now) ==
    LET ok == to \in Accepts(P.state) IN
    [P |-> IF ok
           THEN [P EXCEPT !.state = to, !.states[to] = @ + 1, !.time = now]
           ELSE P,
     err |-> ~ok,
     fired |-> IF ok /\ P.cbState THEN <<[from |-> P.state, to |-> to]>> ELSE <<>>]

\* process.setState as the package calls it: the error is dropped by every
\* caller (the time does not advance where no clock is modelled)
setState(P, to) == setStateAt(P, to, P.time).P

\* the clock at construction; no call of setState yet; seen: the callbacks
\* onStateChange(from, to) run so far, counted by their `to`
NoProbe ==
    [now |-> 0, err |-> FALSE, fired |-> <<>>, seen |-> ZeroStates]

\* process.unreconnect: stop and forget the reconnect timer
unreconnect(P) == [P EXCEPT !.timer = "nil"]

\* process.reconnect: with reconnect enabled, replace the timer by a new one
reconnect(P) ==
    IF ~P.reconn THEN P ELSE [unreconnect(P) EXCEPT !.timer = "armed"]

NoKillTimer == [st |-> "nil", for |-> 0]

\* the error line that start() or stop() hands to the parser when the spawn
\* of child p or the signal to child p failed
ErrLine(p) == 0 - p

\* process.New (with initState(stateFinished)): order "stop", state finished;
\* cb: Config.OnExit is set (ffmpeg.New leaves it nil);
\* time: p.state.time; cbState: Config.OnStateChange is set.  The parser of the
\* supervisor: prog, the child whose lines the progress comes from (0: the
\* progress is all-zero); log, whose lines were put into the ring since the
\* last ResetLog (child p, or ErrLine(p))
NewProc(reconn, stale, args) ==
    [live |-> TRUE, state |-> stateFinished, states |-> ZeroStates,
     order |-> "stop", olock |-> NoThread,
     cmd |-> 0, limits |-> 0,
     reconn |-> reconn, timer |-> "nil",
     killTimer |-> NoKillTimer, leaked |-> {},
     staleOn |-> stale, staleCancel |-> 0,
     cb |-> FALSE, onExit |-> <<>>, args |-> args,
     prog |-> 0, log |-> {}, time |-> 0, cbState |-> FALSE]

NoProc == [NewProc(FALSE, FALSE, <<>>) EXCEPT !.live = FALSE]

\* rd: how far the reader of the child's stream is ("reset": it has reset
\* the parser, "lines": it has parsed lines of the child)
NoChild ==
    [sup |-> 0, st |-> "none", exit |-> "none", res |-> "none", ctx |-> "none",
     rd |-> "none"]

\* ran: how often Config.OnExit was called for the child
NoJob == [pending |-> FALSE, chain |-> <<>>, ran |-> 0]

\* ------------------------------------------------- returning from a call

\* the deferred p.order.lock.Unlock() of Start, Stop, Kill and of the
\* reconnect timer's function
Unlock(t, P) == IF P.olock = t THEN [P EXCEPT !.olock = NoThread] ELSE P

\* thread t after it returned from Start/Stop/Kill (or the staler ended): a
\* caller inside a registry call continues that call
RetThread(t) ==
    IF t \in Callers /\ op[t].kind # "none"
    THEN [NewThread(t) EXCEPT !.pc = "store_ret", !.sup = th[t].sup]
    ELSE NewThread(t)

\* what a caller's last call of Start, Stop or Kill was and what it returned
NoRet == [fn |-> "none", wait |-> FALSE, ret |-> "nil", sup |-> 0]

RetVal(t, f, w, r, s) ==
    IF t \in Callers
    THEN [lastRet EXCEPT ![t] = [fn |-> f, wait |-> w, ret |-> r, sup |-> s]]
    ELSE lastRet

\* thread t returns r from the call it is in
Return(t, r) ==
    /\ th' = [th EXCEPT ![t] = RetThread(t)]
    /\ lastRet' = RetVal(t, th[t].fn, th[t].wait, r, th[t].sup)

\* thread t returns r from a call of f that it entered in this very step
ReturnAtOnce(t, f, w, r, s) ==
    /\ th' = [th EXCEPT ![t] = RetThread(t)]
    /\ lastRet' = RetVal(t, f, w, r, s)

\* ------------------------------------------------------------ Start

\* process.Start without the check of the order
lockedStartAlways(t, s) ==
    LET P == sup[s] IN
    /\ P.olock = NoThread
    /\ sup' = [sup EXCEPT ![s] = [P EXCEPT !.order = "start", !.olock = t]]
    /\ th' = [th EXCEPT ![t] = [@ EXCEPT !.pc = "start_begin", !.fn = "Start",
                                          !.sup = s]]
    /\ UNCHANGED lastRet

\* process.Start: with the order locked, "start" already is a no-op; else
\* the order becomes "start" and start() runs under the lock
lockedStart(t, s) ==
    LET P == sup[s] IN
    /\ P.olock = NoThread
    /\ IF P.order = "start"
       THEN /\ ReturnAtOnce(t, "Start", FALSE, "nil", s)
            /\ UNCHANGED sup
       ELSE /\ sup' = [sup EXCEPT ![s] = [P EXCEPT !.order = "start", !.olock = t]]
            /\ th' = [th EXCEPT ![t] = [@ EXCEPT !.pc = "start_begin", !.fn = "Start",
                                                  !.sup = s]]
            /\ UNCHANGED lastRet

\* Process.Start called by a goroutine that is already inside a registry
\* call or was spawned by one: it blocks until the order lock is free
StartLock(t) ==
    /\ ~crashed /\ th[t].pc = "Start"
    /\ lockedStart(t, th[t].sup)
    /\ UNCHANGED <<child, npid, rw, exitJob, wg, nwg, events, crashed, storeVars>>

\* a direct call of Process.Start by an API caller (the call is taken at the
\* moment it gets the order lock)
CallStart(t, s) ==
    /\ ~crashed /\ t \in Callers /\ th[t].pc = "idle" /\ op[t].kind = "none"
    /\ sup[s].live /\ events < MaxEvents
    /\ events' = events + 1
    /\ lockedStart(t, s)
    /\ UNCHANGED <<child, npid, rw, exitJob, wg, nwg, crashed, storeVars>>

\* process.start, first part: return when running, else cancel the reconnect
\* timer and go to starting
StartBegin(t) ==
    LET s == th[t].sup P == sup[s] IN
    /\ ~crashed /\ th[t].pc = "start_begin"
    /\ IF IsRunning(P.state)
       THEN /\ sup' = [sup EXCEPT ![s] = Unlock(t, P)]
            /\ Return(t, "nil")
       ELSE /\ npid + Cardinality({u \in Threads : th[u].pc = "start_cmd"}) < MaxPid
            /\ sup' = [sup EXCEPT ![s] = setState(unreconnect(P), stateStarting)]
            /\ th' = [th EXCEPT ![t].pc = "start_cmd"]
            /\ UNCHANGED lastRet
    /\ UNCHANGED <<child, npid, rw, exitJob, wg, nwg, events, crashed, storeVars>>

\* process.start: p.cmd = exec.Command(...); its Process is nil until Start
StartCmd(t) ==
    LET s == th[t].sup P == sup[s] p == npid + 1 IN
    /\ ~crashed /\ th[t].pc = "start_cmd"
    /\ npid' = p
    /\ child' = [child EXCEPT ![p] = [NoChild EXCEPT !.sup = s, !.st = "new"]]
    /\ sup' = [sup EXCEPT ![s] = [P EXCEPT !.cmd = p]]
    /\ th' = [th EXCEPT ![t].pc = "start_spawn"]
    /\ UNCHANGED <<rw, exitJob, wg, nwg, events, crashed, storeVars, lastRet>>

\* process.start: StderrPipe and cmd.Start.  ok: the child lives, the pid is
\* recorded and the sampler attached.  Otherwise failed, the error is parsed,
\* reconnect, return err.
StartSpawn(t, ok) ==
    LET s == th[t].sup P == sup[s] p == P.cmd IN
    /\ ~crashed /\ th[t].pc = "start_spawn"
    /\ IF ok
       THEN /\ child' = [child EXCEPT ![p].st = "alive"]
            /\ sup' = [sup EXCEPT ![s] = [P EXCEPT !.limits = p]]
            /\ th' = [th EXCEPT ![t].pc = "start_run"]
            /\ UNCHANGED lastRet
       ELSE /\ child' = [child EXCEPT ![p].st = "nospawn"]
            /\ sup' = [sup EXCEPT ![s] =
                         Unlock(t, reconnect(setState(
                             [P EXCEPT !.log = @ \cup {ErrLine(p)}], stateFailed)))]
            /\ Return(t, "err")
    /\ UNCHANGED <<npid, rw, exitJob, wg, nwg, events, crashed, storeVars>>

\* process.start, last part: running, `go p.reader()`, and with a stale
\* timeout a fresh context and `go p.staler(ctx)`
StartRun(t) ==
    LET s == th[t].sup P == sup[s] p == P.cmd
        P1 == setState(P, stateRunning)
        P2 == IF P.staleOn THEN [P1 EXCEPT !.staleCancel = p] ELSE P1 IN
    /\ ~crashed /\ th[t].pc = "start_run"
    /\ sup' = [sup EXCEPT ![s] = Unlock(t, P2)]
    /\ rw' = [rw EXCEPT ![p] = "rd_loop"]
    /\ child' = [child EXCEPT ![p].ctx = IF P.staleOn THEN "live" ELSE "none"]
    /\ th' = [th EXCEPT
                ![t] = RetThread(t),
                ![<<"staler", p>>] =
                    IF P.staleOn
                    THEN [NewThread(<<"staler", p>>) EXCEPT
                            !.pc = "stale_tick", !.fn = "staler", !.sup = s]
                    ELSE @]
    /\ lastRet' = RetVal(t, th[t].fn, th[t].wait, "nil", th[t].sup)
    /\ UNCHANGED <<npid, exitJob, wg, nwg, events, crashed, storeVars>>

\* ------------------------------------------------------- Stop and Kill

\* process.Stop: with the order locked, "stop" already is a no-op; else the
\* order becomes "stop" and stop(wait) runs under the lock
lockedStop(t, s, w) ==
    LET P == sup[s] IN
    /\ P.olock = NoThread
    /\ IF P.order = "stop"
       THEN /\ ReturnAtOnce(t, "Stop", w, "nil", s)
            /\ UNCHANGED sup
       ELSE /\ sup' = [sup EXCEPT ![s] = [P EXCEPT !.order = "stop", !.olock = t]]
            /\ th' = [th EXCEPT ![t] = [@ EXCEPT !.pc = "stop_begin", !.fn = "Stop",
                                                  !.sup = s, !.wait = w]]
            /\ UNCHANGED lastRet

\* Process.Stop called from inside a registry call: it blocks until the
\* order lock is free
StopLock(t) ==
    /\ ~crashed /\ th[t].pc = "Stop"
    /\ lockedStop(t, th[t].sup, th[t].wait)
    /\ UNCHANGED <<child, npid, rw, exitJob, wg, nwg, events, crashed, storeVars>>

\* a direct call of Process.Stop(wait) by an API caller
CallStop(t, s, w) ==
    /\ ~crashed /\ t \in Callers /\ th[t].pc = "idle" /\ op[t].kind = "none"
    /\ sup[s].live /\ events < MaxEvents
    /\ events' = events + 1
    /\ lockedStop(t, s, w)
    /\ UNCHANGED <<child, npid, rw, exitJob, wg, nwg, crashed, storeVars>>

\* a direct call of Process.Kill(wait) by an API caller: not running is a
\* no-op, checked before the order is locked
CallKill(t, s, w) ==
    /\ ~crashed /\ t \in Callers /\ th[t].pc = "idle" /\ op[t].kind = "none"
    /\ sup[s].live /\ events < MaxEvents
    /\ events' = events + 1
    /\ IF ~IsRunning(sup[s].state)
       THEN ReturnAtOnce(t, "Kill", w, "nil", s)
       ELSE /\ th' = [th EXCEPT ![t] = [@ EXCEPT !.pc = "Kill_lock", !.fn = "Kill",
                                                  !.sup = s, !.wait = w]]
            /\ UNCHANGED lastRet
    /\ UNCHANGED <<sup, child, npid, rw, exitJob, wg, nwg, crashed, storeVars>>

\* process.Kill: lock the order, which is left as it is
KillLock(t) ==
    LET s == th[t].sup P == sup[s] IN
    /\ ~crashed /\ th[t].pc = "Kill_lock" /\ P.olock = NoThread
    /\ sup' = [sup EXCEPT ![s] = [P EXCEPT !.olock = t]]
    /\ th' = [th EXCEPT ![t].pc = "stop_begin"]
    /\ UNCHANGED <<child, npid, rw, exitJob, wg, nwg, events, crashed, storeVars, lastRet>>

\* process.stop: `if !p.isRunning() { p.unreconnect(); return nil }`
StopBegin(t) ==
    LET s == th[t].sup P == sup[s] IN
    /\ ~crashed /\ th[t].pc = "stop_begin"
    /\ IF ~IsRunning(P.state)
       THEN /\ sup' = [sup EXCEPT ![s] = Unlock(t, unreconnect(P))]
            /\ Return(t, "nil")
       ELSE /\ th' = [th EXCEPT ![t].pc = "stop_check"]
            /\ UNCHANGED <<sup, lastRet>>
    /\ UNCHANGED <<child, npid, rw, exitJob, wg, nwg, events, crashed, storeVars>>

\* process.stop: `if p.getState() == stateFinishing { return nil }`
StopCheck(t) ==
    LET s == th[t].sup P == sup[s] IN
    /\ ~crashed /\ th[t].pc = "stop_check"
    /\ IF P.state = stateFinishing
       THEN /\ sup' = [sup EXCEPT ![s] = Unlock(t, P)]
            /\ Return(t, "nil")
       ELSE /\ th' = [th EXCEPT ![t].pc = "stop_set"]
            /\ UNCHANGED <<sup, lastRet>>
    /\ UNCHANGED <<child, npid, rw, exitJob, wg, nwg, events, crashed, storeVars>>

\* process.stop: p.setState(stateFinishing), its error dropped
StopSet(t) ==
    LET s == th[t].sup P == sup[s] IN
    /\ ~crashed /\ th[t].pc = "stop_set"
    /\ sup' = [sup EXCEPT ![s] = setState(P, stateFinishing)]
    /\ th' = [th EXCEPT ![t].pc = IF th[t].wait THEN "stop_chain" ELSE "stop_signal"]
    /\ UNCHANGED <<child, npid, rw, exitJob, wg, nwg, events, crashed, storeVars, lastRet>>

\* process.stop with wait: wg.Add(1) and onExit wrapped by a function that
\* calls the previous onExit and then wg.Done().  onExit is the sequence of
\* the barriers wrapped so far, innermost first (Config.OnExit itself is nil:
\* neither Add nor Update sets it).
StopChain(t) ==
    LET s == th[t].sup P == sup[s] b == nwg + 1 IN
    /\ ~crashed /\ th[t].pc = "stop_chain"
    /\ nwg' = b
    /\ wg' = [wg EXCEPT ![b] = 1]
    /\ sup' = [sup EXCEPT ![s] = [P EXCEPT !.onExit = Append(@, b)]]
    /\ th' = [th EXCEPT ![t] = [@ EXCEPT !.pc = "stop_signal", !.wg = b]]
    /\ UNCHANGED <<child, npid, rw, exitJob, events, crashed, storeVars, lastRet>>

\* what p.cmd.Process.Signal / Kill meets: a nil Process (the command was not
\* started, or failed to start) panics; a process that was waited for gives
\* an error; a live process or a zombie takes the signal
ProcessOf(P) ==
    IF P.cmd = 0 THEN "nil"
    ELSE CASE child[P.cmd].st \in {"new", "nospawn"} -> "nil"
           [] child[P.cmd].st \in {"alive", "zombie"} -> "ok"
           [] OTHER -> "done"

\* process.stop: Signal(os.Interrupt), and Kill when that fails
StopSignal(t) ==
    LET s == th[t].sup P == sup[s] IN
    /\ ~crashed /\ th[t].pc = "stop_signal"
    /\ CASE ProcessOf(P) = "nil" ->
                /\ crashed' = TRUE
                /\ UNCHANGED th
         [] ProcessOf(P) = "ok" ->
                /\ th' = [th EXCEPT ![t].pc = "stop_arm"]
                /\ UNCHANGED crashed
         [] OTHER ->
                /\ th' = [th EXCEPT ![t] = [@ EXCEPT !.pc = "stop_err", !.cmd = P.cmd]]
                /\ UNCHANGED crashed
    /\ UNCHANGED <<sup, child, npid, rw, exitJob, wg, nwg, events, storeVars, lastRet>>

\* process.stop: p.killTimer = time.AfterFunc(5s, Kill).  A timer that was
\* still armed under the old pointer stays armed, unreferenced.
StopArm(t) ==
    LET s == th[t].sup P == sup[s]
        P1 == [P EXCEPT !.leaked = IF P.killTimer.st = "armed"
                                   THEN @ \cup {P.killTimer.for} ELSE @,
                        !.killTimer = [st |-> "armed", for |-> P.cmd]] IN
    /\ ~crashed /\ th[t].pc = "stop_arm"
    /\ IF th[t].wait
       THEN /\ sup' = [sup EXCEPT ![s] = P1]
            /\ th' = [th EXCEPT ![t].pc = "stop_wait"]
            /\ UNCHANGED lastRet
       ELSE /\ sup' = [sup EXCEPT ![s] = Unlock(t, P1)]
            /\ Return(t, "nil")
    /\ UNCHANGED <<child, npid, rw, exitJob, wg, nwg, events, crashed, storeVars>>

\* process.stop: wg.Wait() returns once the barrier's counter is zero
StopWait(t) ==
    LET s == th[t].sup P == sup[s] IN
    /\ ~crashed /\ th[t].pc = "stop_wait"
    /\ wg[th[t].wg] = 0
    /\ sup' = [sup EXCEPT ![s] = Unlock(t, P)]
    /\ Return(t, "nil")
    /\ UNCHANGED <<child, npid, rw, exitJob, wg, nwg, events, crashed, storeVars>>

\* process.stop: the signal failed: the error is parsed, failed is attempted,
\* the error is returned without waiting
StopErr(t) ==
    LET s == th[t].sup P == sup[s] IN
    /\ ~crashed /\ th[t].pc = "stop_err"
    /\ sup' = [sup EXCEPT ![s] =
                 Unlock(t, setState([P EXCEPT !.log = @ \cup {ErrLine(th[t].cmd)}],
                                    stateFailed))]
    /\ Return(t, "err")
    /\ UNCHANGED <<child, npid, rw, exitJob, wg, nwg, events, crashed, storeVars>>

\* ------------------------------------------------------ reconnect timer

\* the reconnect timer expires: its function runs in a goroutine of its own
\* (at most one such goroutine per supervisor is followed)
TimerFire(s) ==
    LET t == <<"timer", s>> IN
    /\ ~crashed /\ sup[s].live /\ sup[s].timer = "armed" /\ th[t].pc = "none"
    /\ sup' = [sup EXCEPT ![s].timer = "nil"]
    /\ th' = [th EXCEPT ![t] = [@ EXCEPT !.pc = "tlock", !.fn = "timer", !.sup = s]]
    /\ UNCHANGED <<child, npid, rw, exitJob, wg, nwg, events, crashed, storeVars, lastRet>>

\* the timer's function: lock the order and call start(), whatever the order
TimerLock(t) ==
    LET s == th[t].sup P == sup[s] IN
    /\ ~crashed /\ th[t].pc = "tlock" /\ P.olock = NoThread
    /\ sup' = [sup EXCEPT ![s] = [P EXCEPT !.olock = t]]
    /\ th' = [th EXCEPT ![t].pc = "start_begin"]
    /\ UNCHANGED <<child, npid, rw, exitJob, wg, nwg, events, crashed, storeVars, lastRet>>

\* -------------------------------------------------------------- staler

\* process.staler, select: the context is done
StalerDone(t) ==
    /\ ~crashed /\ th[t].pc = "stale_tick"
    /\ child[t[2]].ctx = "cancelled"
    /\ th' = [th EXCEPT ![t] = NewThread(t)]
    /\ UNCHANGED <<sup, child, npid, rw, exitJob, wg, nwg, events, crashed, storeVars, lastRet>>

\* process.staler, select: a tick.  Whether `t.Sub(last) > timeout` holds
\* depends on the time of the last progress line; a tick that finds it true
\* calls stop(false), without the order lock, and any tick may find it true.
\* (select takes any ready case: a done context does not keep a tick that is
\* ready as well from being taken.)
StalerTick(t) ==
    /\ ~crashed /\ th[t].pc = "stale_tick"
    /\ events < MaxEvents
    /\ events' = events + 1
    /\ th' = [th EXCEPT ![t] = [@ EXCEPT !.pc = "stop_begin", !.wait = FALSE]]
    /\ UNCHANGED <<sup, child, npid, rw, exitJob, wg, nwg, crashed, storeVars, lastRet>>

\* --------------------------------------------------- the child process

\* the child ends by itself or is signalled from outside: exit code 0, exit
\* code 255, another exit code, or death by a signal
ExitKinds == {"exit0", "exit255", "exitN", "signal"}

ChildExit(p, k) ==
    /\ ~crashed /\ child[p].st = "alive"
    /\ child' = [child EXCEPT ![p] = [@ EXCEPT !.st = "zombie", !.exit = k]]
    /\ UNCHANGED <<sup, npid, th, rw, exitJob, wg, nwg, events, crashed, storeVars, lastRet>>

\* the kill timer's function, p.cmd.Process.Kill(), on the p.cmd of the
\* moment it runs
killNow(P) ==
    IF ProcessOf(P) = "ok" /\ child[P.cmd].st = "alive"
    THEN [child EXCEPT ![P.cmd] = [@ EXCEPT !.st = "zombie", !.exit = "signal"]]
    ELSE child

\* the kill timer p.killTimer points to expires (an expired timer behaves as
\* no timer: stopping it does nothing)
KillTimerFire(s) ==
    LET P == sup[s] IN
    /\ ~crashed /\ P.live /\ P.killTimer.st = "armed"
    /\ sup' = [sup EXCEPT ![s].killTimer = NoKillTimer]
    /\ IF ProcessOf(P) = "nil"
       THEN crashed' = TRUE /\ UNCHANGED child
       ELSE child' = killNow(P) /\ UNCHANGED crashed
    /\ UNCHANGED <<npid, th, rw, exitJob, wg, nwg, events, storeVars, lastRet>>

\* a kill timer that p.killTimer no longer points to expires
LeakedTimerFire(s, k) ==
    LET P == sup[s] IN
    /\ ~crashed /\ P.live /\ k \in P.leaked
    /\ sup' = [sup EXCEPT ![s].leaked = @ \ {k}]
    /\ IF ProcessOf(P) = "nil"
       THEN crashed' = TRUE /\ UNCHANGED child
       ELSE child' = killNow(P) /\ UNCHANGED crashed
    /\ UNCHANGED <<npid, th, rw, exitJob, wg, nwg, events, storeVars, lastRet>>

\* ------------------------------------------------------ reader, waiter

\* the state the waiter chooses for the way the child ended
Classify(k) ==
    CASE k = "exit0" -> stateFinished
      [] k = "exit255" -> stateFinished
      [] k = "exitN" -> stateFailed
      [] OTHER -> stateKilled

\* process.reader, before its loop: ResetStats and ResetLog
ReaderReset(p) ==
    LET s == child[p].sup IN
    /\ ~crashed /\ rw[p] = "rd_loop" /\ child[p].rd = "none"
    /\ sup' = [sup EXCEPT ![s] = [@ EXCEPT !.prog = 0, !.log = {}]]
    /\ child' = [child EXCEPT ![p].rd = "reset"]
    /\ UNCHANGED <<npid, th, rw, exitJob, wg, nwg, events, crashed, storeVars, lastRet>>

\* process.reader, one round of its loop: a progress line that the child
\* wrote is parsed; the progress is that of the line, the ring holds the line
ReaderParse(p) ==
    LET s == child[p].sup IN
    /\ ~crashed /\ rw[p] = "rd_loop" /\ child[p].rd # "none"
    /\ child[p].st \in {"alive", "zombie"}
    /\ sup' = [sup EXCEPT ![s] = [@ EXCEPT !.prog = p, !.log = @ \cup {p}]]
    /\ child' = [child EXCEPT ![p].rd = "lines"]
    /\ UNCHANGED <<npid, th, rw, exitJob, wg, nwg, events, crashed, storeVars, lastRet>>

\* process.reader reads until the stream of its child ends, which is when
\* the child has exited (a reader that has not reset the parser yet does so
\* first), and calls process.waiter: p.cmd.Wait() on the p.cmd of the
\* moment; it blocks while that process lives, and a command not started or
\* already waited for gives an error that is no ExitError
WaiterWait(p) ==
    LET s == child[p].sup c == sup[s].cmd IN
    /\ ~crashed /\ rw[p] = "rd_loop" /\ child[p].st \in {"zombie", "reaped"}
    /\ child[c].st # "alive"
    /\ sup' = IF child[p].rd # "none" THEN sup
              ELSE [sup EXCEPT ![s] = [@ EXCEPT !.prog = 0, !.log = {}]]
    /\ child' = [child EXCEPT
                   ![c].st = IF @ = "zombie" THEN "reaped" ELSE @,
                   ![c].exit = "none",
                   ![p].res = IF child[c].st = "zombie"
                              THEN Classify(child[c].exit) ELSE stateKilled,
                   ![p].rd = IF @ = "none" THEN "reset" ELSE @]
    /\ rw' = [rw EXCEPT ![p] = "w_state"]
    /\ UNCHANGED <<npid, th, exitJob, wg, nwg, events, crashed, storeVars, lastRet>>

\* process.waiter: setState with the classified state, its error dropped
WaiterState(p) ==
    LET s == child[p].sup IN
    /\ ~crashed /\ rw[p] = "w_state"
    /\ sup' = [sup EXCEPT ![s] = setState(@, child[p].res)]
    /\ child' = [child EXCEPT ![p].res = "none"]
    /\ rw' = [rw EXCEPT ![p] = "w_limits"]
    /\ UNCHANGED <<npid, th, exitJob, wg, nwg, events, crashed, storeVars, lastRet>>

\* process.waiter: p.limits.Stop()
WaiterLimits(p) ==
    LET s == child[p].sup IN
    /\ ~crashed /\ rw[p] = "w_limits"
    /\ sup' = [sup EXCEPT ![s].limits = 0]
    /\ rw' = [rw EXCEPT ![p] = "w_kill"]
    /\ UNCHANGED <<child, npid, th, exitJob, wg, nwg, events, crashed, storeVars, lastRet>>

\* process.waiter: stop and forget p.killTimer
WaiterKillTimer(p) ==
    LET s == child[p].sup IN
    /\ ~crashed /\ rw[p] = "w_kill"
    /\ sup' = [sup EXCEPT ![s].killTimer = NoKillTimer]
    /\ rw' = [rw EXCEPT ![p] = "w_stale"]
    /\ UNCHANGED <<child, npid, th, exitJob, wg, nwg, events, crashed, storeVars, lastRet>>

\* process.waiter: cancel and forget p.stale.cancel
WaiterStale(p) ==
    LET s == child[p].sup c == sup[s].staleCancel IN
    /\ ~crashed /\ rw[p] = "w_stale"
    /\ sup' = [sup EXCEPT ![s].staleCancel = 0]
    /\ child' = IF c = 0 THEN child ELSE [child EXCEPT ![c].ctx = "cancelled"]
    /\ rw' = [rw EXCEPT ![p] = "w_exit"]
    /\ UNCHANGED <<npid, th, exitJob, wg, nwg, events, crashed, storeVars, lastRet>>

\* process.waiter: ResetStats, then `go p.callbacks.onExit()` when it is set
WaiterOnExit(p) ==
    LET s == child[p].sup IN
    /\ ~crashed /\ rw[p] = "w_exit"
    /\ exitJob' = IF ~sup[s].cb /\ sup[s].onExit = <<>> THEN exitJob
                  ELSE [exitJob EXCEPT ![p] = [pending |-> TRUE, chain |-> sup[s].onExit,
                                               ran |-> 0]]
    /\ sup' = [sup EXCEPT ![s].prog = 0]
    /\ rw' = [rw EXCEPT ![p] = "w_lock"]
    /\ UNCHANGED <<child, npid, th, wg, nwg, events, crashed, storeVars, lastRet>>

\* process.waiter: under the order lock, reconnect when the order is "start"
WaiterReconnect(p) ==
    LET s == child[p].sup P == sup[s] IN
    /\ ~crashed /\ rw[p] = "w_lock" /\ P.olock = NoThread
    /\ sup' = [sup EXCEPT ![s] = IF P.order = "start" THEN reconnect(P) ELSE P]
    /\ rw' = [rw EXCEPT ![p] = "done"]
    /\ UNCHANGED <<child, npid, th, exitJob, wg, nwg, events, crashed, storeVars, lastRet>>

\* the barriers of a chain, innermost first, each taking one Done(): the
\* counters afterwards, up to the first barrier that is already zero
RECURSIVE runChain(_, _)
runChain(chain, w) ==
    IF chain = <<>> \/ w[Head(chain)] = 0 THEN w
    ELSE runChain(Tail(chain), [w EXCEPT ![Head(chain)] = @ - 1])

\* Done() on a zero counter panics ("sync: negative WaitGroup counter")
chainPanics(chain, w) ==
    \E i \in 1..Len(chain) :
        /\ w[chain[i]] = 0
        /\ \A j \in 1..(i - 1) : w[chain[j]] > 0

\* the goroutine of `go p.callbacks.onExit()`
OnExitRun(p) ==
    /\ ~crashed /\ exitJob[p].pending
    /\ exitJob' = [exitJob EXCEPT ![p] =
                      [NoJob EXCEPT !.ran = IF sup[child[p].sup].cb THEN 1 ELSE 0]]
    /\ wg' = runChain(exitJob[p].chain, wg)
    /\ crashed' = chainPanics(exitJob[p].chain, wg)
    /\ UNCHANGED <<sup, child, npid, th, rw, nwg, events, storeVars, lastRet>>

\* ------------------------------------------------------- the parser

\* Bounds of the lines a child writes
MaxLineLen == 3

\* A line is a sequence of pieces: the text "frame=", a blank, the digits 0
\* and 7, and any other character
Digits == {"0", "7"}
Pieces == {"frame=", " ", "x"} \cup Digits
Lines == UNION {[1..n -> Pieces] : n \in 0..MaxLineLen}

\* strings.Contains(line, "frame=")
isProgress(line) == \E i \in 1..Len(line) : line[i] = "frame="

\* `\s*` of re.frame: the first position from j on that holds no blank
RECURSIVE skipBlanks(_, _)
skipBlanks(line, j) ==
    IF j <= Len(line) /\ line[j] = " " THEN skipBlanks(line, j + 1) ELSE j

\* strconv.ParseUint of the run of digits that starts at j
RECURSIVE ParseUint(_, _, _)
ParseUint(line, j, acc) ==
    IF j <= Len(line) /\ line[j] \in Digits
    THEN ParseUint(line, j + 1, acc * 10 + (IF line[j] = "0" THEN 0 ELSE 7))
    ELSE acc

\* re.frame = `frame=\s*([0-9]+)` matches at position i
frameAt(line, i) ==
    /\ line[i] = "frame="
    /\ skipBlanks(line, i + 1) <= Len(line)
    /\ line[skipBlanks(line, i + 1)] \in Digits

\* re.frame.FindStringSubmatch: the number of the leftmost match, or -1
FindFrame(line) ==
    LET ms == {i \in 1..Len(line) : frameAt(line, i)} IN
    IF ms = {} THEN -1
    ELSE LET i == CHOOSE k \in ms : \A l \in ms : k <= l IN
         ParseUint(line, skipBlanks(line, i + 1), 0)

\* the largest value of the unsigned type of the progress fields: the 2^64 - 1
\* of uint64, scaled down so that numbers of the model's lines exceed it
MaxUint == 63

\* strconv.ParseUint(m[1], 10, 64) returns no error: the number is in range
inRange(x) == x <= MaxUint

\* Config.MaxLogLines of the model: the capacity of the log ring
MaxLogLines == 2

\* the number of lines a parser is given
MaxParsed == 4

\* the Value of a ring element that was never written
NilValue == [Timestamp |-> 0, Data |-> <<>>]

\* ring.New(n) with p.log pointing at its first element
ringNew(n) == [buf |-> [i \in 1..n |-> NilValue], pos |-> 1]

\* p.log.Value = v; p.log = p.log.Next()
ringPut(r, v) ==
    [buf |-> [r.buf EXCEPT ![r.pos] = v], pos |-> (r.pos % Len(r.buf)) + 1]

\* ring.Do read from the first element instead of from p.log
ringDoFromFirst(r) == r.buf

\* p.log.Do: the values of all elements, from the element p.log points at on
ringDo(r) ==
    [i \in 1..Len(r.buf) |-> r.buf[((r.pos + i - 2) % Len(r.buf)) + 1]]

\* parse.New: no progress yet, an empty ring of logLines elements (100 when
\* none is configured).  now: the clock, which ticks with every Parse;
\* n, line, staleReset: the last call of Parse by the reader, its line and
\* whether the reader reset the stale clock after it
New(logLines) ==
    LET c == IF logLines <= 0 THEN 100 ELSE logLines IN
    [Frame |-> 0, line |-> <<>>, n |-> 0, staleReset |-> FALSE,
     logLines |-> c, log |-> ringNew(c), logStart |-> 0, now |-> 0]

\* ffmpeg.NewParser: parse.New with the configured number of log lines
NewParser == New(MaxLogLines)

\* parser.Parse: the line is put into the ring; a line without "frame="
\* returns 0; otherwise the frame number, when one is found and in range,
\* replaces progress.Frame, and progress.Frame is returned
Parse(P, line) ==
    LET t == P.now + 1
        L == [P EXCEPT !.now = t,
                       !.log = ringPut(@, [Timestamp |-> t, Data |-> line])] IN
    IF ~isProgress(line)
    THEN [L EXCEPT !.n = 0]
    ELSE LET x == FindFrame(line)
             f == IF x >= 0 /\ inRange(x) THEN x ELSE P.Frame IN
         [L EXCEPT !.Frame = f, !.n = f]

\* process.reader, one round of its loop: the line is parsed and the stale
\* clock is reset when Parse returned a non-zero value
ReaderLine(line) ==
    LET r == Parse(parser, line) IN
    /\ parser.now < MaxParsed
    /\ parser' = [r EXCEPT !.line = line, !.staleReset = r.n # 0]
    /\ UNCHANGED <<procVars, events, tasks, nproc, storeLock, op, calls, probe, lastRet>>

\* parser.ResetStats, called by the reader when it starts and by the waiter
ResetStats ==
    /\ parser' = [parser EXCEPT !.Frame = 0, !.staleReset = FALSE]
    /\ UNCHANGED <<procVars, events, tasks, nproc, storeLock, op, calls, probe, lastRet>>

\* parser.ResetLog, called by the reader when it starts: a new ring
ResetLog ==
    /\ parser' = [parser EXCEPT !.log = ringNew(parser.logLines),
                                !.logStart = parser.now]
    /\ UNCHANGED <<procVars, events, tasks, nproc, storeLock, op, calls, probe, lastRet>>

\* parser.Log: the values of the ring that were written, oldest first
Log(P) == SelectSeq(ringDo(P.log), LAMBDA v : v # NilValue)

\* parser.Progress
Progress(P) == [Frame |-> P.Frame]

\* ------------------------------------------------ the supervisor alone

NoOp == [kind |-> "none"]

\* one supervisor P, as process.New built it
InitOf(P) ==
    /\ sup = [s \in Procs |-> IF s = 1 THEN P ELSE NoProc]
    /\ child = [p \in Pids |-> NoChild]
    /\ npid = 0
    /\ th = [t \in Threads |-> NewThread(t)]
    /\ rw = [p \in Pids |-> "none"]
    /\ exitJob = [p \in Pids |-> NoJob]
    /\ wg = [b \in Barriers |-> 0]
    /\ nwg = 0
    /\ events = 0
    /\ crashed = FALSE
    /\ tasks = <<>>
    /\ calls = 0
    /\ parser = NewParser
    /\ probe = NoProbe
    /\ nproc = 1
    /\ storeLock = NoThread
    /\ op = [c \in Callers |-> NoOp]
    /\ lastRet = [c \in Callers |-> NoRet]

\* one supervisor, built by process.New with any reconnect and stale policy,
\* with or without Config.OnExit
InitWith(cb) ==
    \E r \in BOOLEAN, st \in BOOLEAN : InitOf([NewProc(r, st, <<>>) EXCEPT !.cb = cb])

\* a supervisor built without Config.OnExit
Init == InitWith(FALSE)

\* the steps of the goroutines of the process package, of the children and
\* of the timers; kinds: the ways a child may end, oks: the outcomes of
\* cmd.Start
ProcSteps(kinds, oks) ==
    \/ \E t \in Threads : StartBegin(t)
    \/ \E t \in Threads : StartCmd(t)
    \/ \E t \in Threads, ok \in oks : StartSpawn(t, ok)
    \/ \E t \in Threads : StartRun(t)
    \/ \E t \in Threads : StopBegin(t)
    \/ \E t \in Threads : StopCheck(t)
    \/ \E t \in Threads : StopSet(t)
    \/ \E t \in Threads : StopChain(t)
    \/ \E t \in Threads : StopSignal(t)
    \/ \E t \in Threads : StopArm(t)
    \/ \E t \in Threads : StopWait(t)
    \/ \E t \in Threads : StopErr(t)
    \/ \E s \in Procs : TimerFire(s)
    \/ \E t \in Timers : TimerLock(t)
    \/ \E t \in Stalers : StalerDone(t)
    \/ \E t \in Stalers : StalerTick(t)
    \/ \E p \in Pids, k \in kinds : ChildExit(p, k)
    \/ \E s \in Procs : KillTimerFire(s)
    \/ \E s \in Procs, k \in Pids : LeakedTimerFire(s, k)
    \/ \E p \in Pids : WaiterWait(p)
    \/ \E p \in Pids : WaiterState(p)
    \/ \E p \in Pids : WaiterLimits(p)
    \/ \E p \in Pids : WaiterKillTimer(p)
    \/ \E p \in Pids : WaiterStale(p)
    \/ \E p \in Pids : WaiterOnExit(p)
    \/ \E p \in Pids : WaiterReconnect(p)
    \/ \E p \in Pids : OnExitRun(p)

\* the events an API caller makes on the supervisor
ProcCall ==
    \/ \E t \in Callers, s \in Procs : CallStart(t, s)
    \/ \E t \in Callers, s \in Procs, w \in BOOLEAN : CallStop(t, s, w)
    \/ \E t \in Callers, s \in Procs, w \in BOOLEAN : CallKill(t, s, w)
    \/ \E t \in Callers : KillLock(t)

ProcStep == ProcSteps(ExitKinds, BOOLEAN)

Next == ProcCall \/ ProcStep

Spec == Init /\ [][Next]_vars

\* the supervisor with children that write lines: Start and Stop(false)
\* by a caller, children that exit with code 0, the reconnect timer, the
\* staler and the reader
LifeNext ==
    \/ \E t \in Callers, s \in Procs : CallStart(t, s)
    \/ \E t \in Callers, s \in Procs : CallStop(t, s, FALSE)
    \/ \E t \in Threads : StartBegin(t)
    \/ \E t \in Threads : StartCmd(t)
    \/ \E t \in Threads, ok \in BOOLEAN : StartSpawn(t, ok)
    \/ \E t \in Threads : StartRun(t)
    \/ \E t \in Threads : StopBegin(t)
    \/ \E t \in Threads : StopCheck(t)
    \/ \E t \in Threads : StopSet(t)
    \/ \E t \in Threads : StopSignal(t)
    \/ \E t \in Threads : StopArm(t)
    \/ \E t \in Threads : StopErr(t)
    \/ \E s \in Procs : TimerFire(s)
    \/ \E t \in Timers : TimerLock(t)
    \/ \E t \in Stalers : StalerDone(t)
    \/ \E t \in Stalers : StalerTick(t)
    \/ \E p \in Pids : ChildExit(p, "exit0")
    \/ \E p \in Pids : ReaderReset(p)
    \/ \E p \in Pids : ReaderParse(p)
    \/ \E p \in Pids : WaiterWait(p)
    \/ \E p \in Pids : WaiterState(p)
    \/ \E p \in Pids : WaiterLimits(p)
    \/ \E p \in Pids : WaiterKillTimer(p)
    \/ \E p \in Pids : WaiterStale(p)
    \/ \E p \in Pids : WaiterOnExit(p)
    \/ \E p \in Pids : WaiterReconnect(p)

LifeSpec == Init /\ [][LifeNext]_vars

\* the number of calls of setState
MaxAttempts == 6

\* a call of p.setState(to), at any time and with any target; the clock ticks
SetStateCall(s, to) ==
    LET r == setStateAt(sup[s], to, probe.now + 1) IN
    /\ ~crashed /\ sup[s].live /\ probe.now < MaxAttempts
    /\ sup' = [sup EXCEPT ![s] = r.P]
    /\ probe' = [now |-> probe.now + 1, err |-> r.err, fired |-> r.fired,
                 seen |-> IF r.fired = <<>> THEN probe.seen
                          ELSE [probe.seen EXCEPT ![r.fired[1].to] = @ + 1]]
    /\ UNCHANGED <<child, npid, th, rw, exitJob, wg, nwg, events, crashed,
                   tasks, nproc, storeLock, op, calls, parser, lastRet>>

\* a supervisor with Config.OnStateChange, as the registry builds it, on
\* which setState is called with any targets
StateInit == InitOf([NewProc(FALSE, FALSE, <<>>) EXCEPT !.cbState = TRUE])

StateNext == \E s \in Procs, to \in StateTypes : SetStateCall(s, to)

StateSpec == StateInit /\ [][StateNext]_vars

\* a supervisor built with Config.OnExit
CbInit == InitWith(TRUE)

CbSpec == CbInit /\ [][Next]_vars

\* ------------------------------------------------------- the registry

\* inputArgs with the address put before its "-i"
RECURSIVE inputArgsAddressFirst(_)
inputArgsAddressFirst(ins) ==
    IF ins = <<>> THEN <<>>
    ELSE Head(ins).Options \o <<Head(ins).Address, "-i">>
           \o inputArgsAddressFirst(Tail(ins))

\* Config.CreateCommand: the options of each input followed by "-i" and its
\* address
RECURSIVE inputArgs(_)
inputArgs(ins) ==
    IF ins = <<>> THEN <<>>
    ELSE Head(ins).Options \o <<"-i", Head(ins).Address>> \o inputArgs(Tail(ins))

\* Config.CreateCommand: the options of each output followed by its address
RECURSIVE outputArgs(_)
outputArgs(outs) ==
    IF outs = <<>> THEN <<>>
    ELSE Head(outs).Options \o <<Head(outs).Address>> \o outputArgs(Tail(outs))

\* Config.CreateCommand
CreateCommand(c) == c.Options \o inputArgs(c.Input) \o outputArgs(c.Output)

\* the validators behind ffmpeg.ValidateInput / ValidateOutput: collaborators
\* of the registry that reject the addresses on their block lists
ValidateInput(address) == address # "blocked-in"
ValidateOutput(address) == address # "blocked-out"

AllValidInput(ios) == \A i \in 1..Len(ios) : ValidateInput(ios[i].Address)

AllValidOutput(ios) == \A i \in 1..Len(ios) : ValidateOutput(ios[i].Address)

\* the configs the callers submit
InputChoices ==
    {<<>>, <<[Address |-> "in", Options |-> <<>>]>>,
     <<[Address |-> "blocked-in", Options |-> <<>>]>>}
OutputChoices ==
    {<<>>, <<[Address |-> "out1", Options |-> <<>>]>>,
     <<[Address |-> "out2", Options |-> <<"-c:v">>]>>,
     <<[Address |-> "blocked-out", Options |-> <<>>]>>}
GivenIds == {"", "a"}
GenIds == {"g1"}
Flavours ==
    {[Reconnect |-> TRUE, Autostart |-> TRUE, StaleTimeout |-> 0,
      Output |-> <<[Address |-> "out1", Options |-> <<>>]>>],
     [Reconnect |-> FALSE, Autostart |-> TRUE, StaleTimeout |-> 1,
      Output |-> <<[Address |-> "out2", Options |-> <<"-c:v">>]>>],
     [Reconnect |-> FALSE, Autostart |-> FALSE, StaleTimeout |-> 0,
      Output |-> <<[Address |-> "out1", Options |-> <<"-an">>]>>]}
ValidConfigs ==
    {[ID |-> i, Input |-> <<[Address |-> "in", Options |-> <<>>]>>,
      Output |-> f.Output, Options |-> <<>>, Reconnect |-> f.Reconnect,
      Autostart |-> f.Autostart, StaleTimeout |-> f.StaleTimeout] :
        i \in GivenIds, f \in Flavours}
    \ {c \in [ID : {""}, Input : InputChoices, Output : OutputChoices,
               Options : {<<>>}, Reconnect : BOOLEAN, Autostart : {TRUE},
               StaleTimeout : {0, 1}] : TRUE}
InvalidConfigs ==
    [ID : {"a"}, Input : InputChoices, Output : OutputChoices,
     Options : {<<>>}, Reconnect : {TRUE}, Autostart : {TRUE},
     StaleTimeout : {0}]
Configs == ValidConfigs \cup InvalidConfigs

\* shortuuid.New(): an ID that no task has
newId == CHOOSE g \in GenIds : g \notin DOMAIN tasks

\* the process.Config that Add and Update hand to ffmpeg.New
procOf(c) ==
    [NewProc(c.Reconnect, c.StaleTimeout # 0, CreateCommand(c)) EXCEPT
        !.cbState = TRUE]

\* Add and Update without their `go task.proc.Start()`
spawnNoStarter(T, s) == T

\* `go task.proc.Start()`
spawnStarter(T, s) ==
    [T EXCEPT ![<<"starter", s>>] =
        [NewThread(<<"starter", s>>) EXCEPT !.pc = "Start", !.fn = "Start", !.sup = s]]

\* addResult without the check of the ID
addResultNoIdCheck(c) ==
    CASE c.Input = <<>> \/ c.Output = <<>> -> "invalid_config"
      [] ~AllValidInput(c.Input) -> "invalid_input_address"
      [] ~AllValidOutput(c.Output) -> "invalid_output_address"
      [] OTHER -> "nil"

\* addResult with the check of the ID made first
addResultIdFirst(c) ==
    CASE (IF c.ID = "" THEN newId ELSE c.ID) \in DOMAIN tasks -> "task_exists"
      [] c.Input = <<>> \/ c.Output = <<>> -> "invalid_config"
      [] ~AllValidInput(c.Input) -> "invalid_input_address"
      [] ~AllValidOutput(c.Output) -> "invalid_output_address"
      [] OTHER -> "nil"

\* what Add returns for a config, the checks in the order of the code
addResult(c) ==
    CASE c.Input = <<>> \/ c.Output = <<>> -> "invalid_config"
      [] ~AllValidInput(c.Input) -> "invalid_input_address"
      [] ~AllValidOutput(c.Output) -> "invalid_output_address"
      [] (IF c.ID = "" THEN newId ELSE c.ID) \in DOMAIN tasks -> "task_exists"
      [] OTHER -> "nil"

storeRet(t, f, r) ==
    [lastRet EXCEPT ![t] = [fn |-> f, wait |-> FALSE, ret |-> r, sup |-> 0]]

\* store.Add, all of it under store.mu
Add(t, c0) ==
    LET c == [c0 EXCEPT !.ID = IF c0.ID = "" THEN newId ELSE c0.ID]
        r == addResult(c0)
        s == nproc + 1 IN
    /\ ~crashed /\ th[t].pc = "idle" /\ op[t].kind = "none"
    /\ storeLock = NoThread /\ events < MaxEvents /\ calls < MaxCalls
    /\ c0.ID = "" => \E g \in GenIds : g \notin DOMAIN tasks
    /\ events' = events + 1 /\ calls' = calls + 1
    /\ lastRet' = storeRet(t, "Add", r)
    /\ IF r # "nil"
       THEN UNCHANGED <<tasks, nproc, sup, th>>
       ELSE /\ nproc < MaxProcs /\ Cardinality(DOMAIN tasks \cup {c.ID}) <= MaxTasks
            /\ nproc' = s
            /\ sup' = [sup EXCEPT ![s] = procOf(c)]
            /\ tasks' = [i \in DOMAIN tasks \cup {c.ID} |->
                           IF i = c.ID
                           THEN [ID |-> c.ID, Config |-> c, proc |-> s,
                                 Order |-> IF c.Autostart THEN "start" ELSE "stop"]
                           ELSE tasks[i]]
            /\ th' = IF c.Autostart THEN spawnStarter(th, s) ELSE th
    /\ UNCHANGED <<child, npid, rw, exitJob, wg, nwg, crashed, parser, probe, storeLock, op>>

\* store.Get without the lookup: every ID is reported as present
GetFound(t, id) ==
    /\ ~crashed /\ th[t].pc = "idle" /\ op[t].kind = "none"
    /\ storeLock = NoThread /\ events < MaxEvents /\ calls < MaxCalls
    /\ events' = events + 1 /\ calls' = calls + 1
    /\ lastRet' = storeRet(t, "Get", "nil")
    /\ UNCHANGED <<sup, child, npid, th, rw, exitJob, wg, nwg, crashed, parser, probe, tasks, nproc,
                   storeLock, op>>

\* store.Get: look the task up under the read lock
Get(t, id) ==
    /\ ~crashed /\ th[t].pc = "idle" /\ op[t].kind = "none"
    /\ storeLock = NoThread /\ events < MaxEvents /\ calls < MaxCalls
    /\ events' = events + 1 /\ calls' = calls + 1
    /\ lastRet' = storeRet(t, "Get", IF id \in DOMAIN tasks THEN "nil" ELSE "not_found")
    /\ UNCHANGED <<sup, child, npid, th, rw, exitJob, wg, nwg, crashed, parser, probe, tasks, nproc,
                   storeLock, op>>

\* what Update returns once the old supervisor was stopped
updateResult(c) ==
    CASE ~AllValidInput(c.Input) -> "invalid_input_address"
      [] ~AllValidOutput(c.Output) -> "invalid_output_address"
      [] OTHER -> "nil"

\* store.Update after the stop: validate, build the new parser and
\* supervisor, replace them on the task, start when the task was running or
\* the config has autostart; store.mu is released
updateTail(t, id, c0, wasRunning) ==
    LET c == [c0 EXCEPT !.ID = id]
        r == updateResult(c)
        s == nproc + 1 IN
    /\ lastRet' = storeRet(t, "Update", r)
    /\ storeLock' = NoThread
    /\ op' = [op EXCEPT ![t] = NoOp]
    /\ IF r # "nil"
       THEN /\ UNCHANGED <<tasks, nproc, sup>>
            /\ th' = [th EXCEPT ![t] = NewThread(t)]
       ELSE /\ nproc' = s
            /\ sup' = [sup EXCEPT ![s] = procOf(c)]
            /\ tasks' = [tasks EXCEPT ![id] =
                           [@ EXCEPT !.Config = c, !.proc = s,
                                     !.Order = IF wasRunning \/ c.Autostart
                                               THEN "start" ELSE @]]
            /\ th' = IF wasRunning \/ c.Autostart
                     THEN spawnStarter([th EXCEPT ![t] = NewThread(t)], s)
                     ELSE [th EXCEPT ![t] = NewThread(t)]

\* store.Update: lock store.mu, look the task up, record wasRunning and, when
\* it was running, call Stop(true) on its supervisor
Update(t, id, c) ==
    /\ ~crashed /\ th[t].pc = "idle" /\ op[t].kind = "none"
    /\ storeLock = NoThread /\ events < MaxEvents /\ calls < MaxCalls
    /\ events' = events + 1 /\ calls' = calls + 1
    /\ IF id \notin DOMAIN tasks
       THEN /\ lastRet' = storeRet(t, "Update", "not_found")
            /\ UNCHANGED <<tasks, nproc, sup, th, storeLock, op>>
       ELSE /\ updateResult(c) = "nil" => nproc < MaxProcs
            /\ IF IsRunning(sup[tasks[id].proc].state)
               THEN /\ storeLock' = t
                    /\ op' = [op EXCEPT ![t] = [kind |-> "Update", id |-> id, cfg |-> c]]
                    /\ th' = [th EXCEPT ![t] = [@ EXCEPT !.pc = "Stop", !.fn = "Stop",
                                 !.sup = tasks[id].proc, !.wait = TRUE]]
                    /\ UNCHANGED <<tasks, nproc, sup, lastRet>>
               ELSE updateTail(t, id, c, FALSE)
    /\ UNCHANGED <<child, npid, rw, exitJob, wg, nwg, crashed, parser, probe>>

\* store.Update, after Stop(true) returned
UpdateStopped(t) ==
    /\ ~crashed /\ th[t].pc = "store_ret" /\ op[t].kind = "Update"
    /\ updateTail(t, op[t].id, op[t].cfg, TRUE)
    /\ UNCHANGED <<child, npid, rw, exitJob, wg, nwg, events, crashed, parser, probe, calls>>

\* store.Delete: lock store.mu, look the task up, call Stop(true)
Delete(t, id) ==
    /\ ~crashed /\ th[t].pc = "idle" /\ op[t].kind = "none"
    /\ storeLock = NoThread /\ events < MaxEvents /\ calls < MaxCalls
    /\ events' = events + 1 /\ calls' = calls + 1
    /\ IF id \notin DOMAIN tasks
       THEN /\ lastRet' = storeRet(t, "Delete", "not_found")
            /\ UNCHANGED <<th, storeLock, op>>
       ELSE /\ storeLock' = t
            /\ op' = [op EXCEPT ![t] = [kind |-> "Delete", id |-> id]]
            /\ th' = [th EXCEPT ![t] = [@ EXCEPT !.pc = "Stop", !.fn = "Stop",
                         !.sup = tasks[id].proc, !.wait = TRUE]]
            /\ UNCHANGED lastRet
    /\ UNCHANGED <<sup, child, npid, rw, exitJob, wg, nwg, crashed, parser, probe, tasks, nproc>>

\* store.Delete, after Stop(true) returned: the task leaves the map
DeleteStopped(t) ==
    /\ ~crashed /\ th[t].pc = "store_ret" /\ op[t].kind = "Delete"
    /\ tasks' = [i \in DOMAIN tasks \ {op[t].id} |-> tasks[i]]
    /\ storeLock' = NoThread
    /\ op' = [op EXCEPT ![t] = NoOp]
    /\ th' = [th EXCEPT ![t] = NewThread(t)]
    /\ lastRet' = storeRet(t, "Delete", "nil")
    /\ UNCHANGED <<sup, child, npid, rw, exitJob, wg, nwg, events, crashed, parser, probe, nproc, calls>>

\* store.Start: Get under the read lock, then Process.Start on the task's
\* supervisor (the call is taken at the moment it gets the order lock)
StoreStart(t, id) ==
    /\ ~crashed /\ th[t].pc = "idle" /\ op[t].kind = "none"
    /\ storeLock = NoThread /\ events < MaxEvents /\ calls < MaxCalls
    /\ events' = events + 1 /\ calls' = calls + 1
    /\ IF id \notin DOMAIN tasks
       THEN /\ lastRet' = storeRet(t, "Start", "not_found")
            /\ UNCHANGED <<sup, th>>
       ELSE lockedStart(t, tasks[id].proc)
    /\ UNCHANGED <<child, npid, rw, exitJob, wg, nwg, crashed, parser, probe, tasks, nproc, storeLock, op>>

\* store.Stop: Get, then Process.Stop(true)
StoreStop(t, id) ==
    /\ ~crashed /\ th[t].pc = "idle" /\ op[t].kind = "none"
    /\ storeLock = NoThread /\ events < MaxEvents /\ calls < MaxCalls
    /\ events' = events + 1 /\ calls' = calls + 1
    /\ IF id \notin DOMAIN tasks
       THEN /\ lastRet' = storeRet(t, "Stop", "not_found")
            /\ UNCHANGED <<sup, th>>
       ELSE lockedStop(t, tasks[id].proc, TRUE)
    /\ UNCHANGED <<child, npid, rw, exitJob, wg, nwg, crashed, parser, probe, tasks, nproc, storeLock, op>>

\* store.Restart: Get, then Process.Stop(true) ...  (op[t].starting keeps
\* the Starting counter the supervisor had when Restart was called)
Restart(t, id) ==
    /\ ~crashed /\ th[t].pc = "idle" /\ op[t].kind = "none"
    /\ storeLock = NoThread /\ events < MaxEvents /\ calls < MaxCalls
    /\ events' = events + 1 /\ calls' = calls + 1
    /\ IF id \notin DOMAIN tasks
       THEN /\ lastRet' = storeRet(t, "Restart", "not_found")
            /\ UNCHANGED <<th, op>>
       ELSE /\ op' = [op EXCEPT ![t] =
                        [kind |-> "Restart", id |-> id,
                         starting |-> sup[tasks[id].proc].states.starting]]
            /\ th' = [th EXCEPT ![t] = [@ EXCEPT !.pc = "Stop", !.fn = "Stop",
                         !.sup = tasks[id].proc, !.wait = TRUE]]
            /\ UNCHANGED lastRet
    /\ UNCHANGED <<sup, child, npid, rw, exitJob, wg, nwg, crashed, parser, probe, tasks, nproc, storeLock>>

\* store.Restart: ... and, whatever Stop returned, Process.Start
RestartStopped(t) ==
    /\ ~crashed /\ th[t].pc = "store_ret" /\ op[t].kind = "Restart"
    /\ op' = [op EXCEPT ![t].kind = "RestartStart"]
    /\ th' = [th EXCEPT ![t] = [@ EXCEPT !.pc = "Start", !.fn = "Start", !.wait = FALSE]]
    /\ UNCHANGED <<sup, child, npid, rw, exitJob, wg, nwg, events, crashed, parser, probe, tasks, nproc,
                   storeLock, lastRet, calls>>

\* store.Restart returns what Process.Start returned
RestartDone(t) ==
    /\ ~crashed /\ th[t].pc = "store_ret" /\ op[t].kind = "RestartStart"
    /\ op' = [op EXCEPT ![t] = NoOp]
    /\ th' = [th EXCEPT ![t] = NewThread(t)]
    /\ lastRet' = storeRet(t, "Restart", lastRet[t].ret)
    /\ UNCHANGED <<sup, child, npid, rw, exitJob, wg, nwg, events, crashed, parser, probe, tasks, nproc,
                   storeLock, calls>>

\* an empty registry, and a parser P
StoreInitWith(P) ==
    /\ sup = [s \in Procs |-> NoProc]
    /\ child = [p \in Pids |-> NoChild]
    /\ npid = 0
    /\ th = [t \in Threads |-> NewThread(t)]
    /\ rw = [p \in Pids |-> "none"]
    /\ exitJob = [p \in Pids |-> NoJob]
    /\ wg = [b \in Barriers |-> 0]
    /\ nwg = 0
    /\ events = 0
    /\ crashed = FALSE
    /\ tasks = <<>>
    /\ calls = 0
    /\ parser = P
    /\ probe = NoProbe
    /\ nproc = 0
    /\ storeLock = NoThread
    /\ op = [c \in Callers |-> NoOp]
    /\ lastRet = [c \in Callers |-> NoRet]

\* an empty registry
StoreInit == StoreInitWith(NewParser)

TaskIds == (GivenIds \ {""}) \cup GenIds

\* the calls an API caller makes on the registry
StoreCall ==
    \/ \E t \in Callers, c \in Configs : Add(t, c)
    \/ \E t \in Callers, id \in TaskIds : Get(t, id)
    \/ \E t \in Callers, id \in TaskIds, c \in Configs : Update(t, id, c)
    \/ \E t \in Callers : UpdateStopped(t)
    \/ \E t \in Callers, id \in TaskIds : Delete(t, id)
    \/ \E t \in Callers : DeleteStopped(t)
    \/ \E t \in Callers, id \in TaskIds : StoreStart(t, id)
    \/ \E t \in Callers, id \in TaskIds : StoreStop(t, id)
    \/ \E t \in Callers, id \in TaskIds : Restart(t, id)
    \/ \E t \in Callers : RestartStopped(t)
    \/ \E t \in Callers : RestartDone(t)
    \/ \E t \in Callers \cup Starters : StartLock(t)
    \/ \E t \in Callers : StopLock(t)

\* the registry is explored with children that start and that end with exit
\* code 0 or by a signal
StoreExitKinds == {"exit0", "signal"}

StoreNext == StoreCall \/ ProcSteps(StoreExitKinds, {TRUE})

StoreSpec == StoreInit /\ [][StoreNext]_vars

\* the steps that the Go scheduler runs sooner or later: those of the
\* goroutines, and the expiry of the timers; not the end of a child
GoSteps == ProcSteps({}, BOOLEAN) \/ \E t \in Starters : StartLock(t)

\* a registry on which only Add is called: the steps of its supervisors are
\* those of ProcSteps that need no Stop(wait=true)
AddNext ==
    \/ \E t \in Callers, c \in Configs : Add(t, c)
    \/ \E t \in Starters : StartLock(t)
    \/ \E t \in Threads : StartBegin(t)
    \/ \E t \in Threads : StartCmd(t)
    \/ \E t \in Threads, ok \in BOOLEAN : StartSpawn(t, ok)
    \/ \E t \in Threads : StartRun(t)
    \/ \E t \in Stalers : StopBegin(t)
    \/ \E t \in Stalers : StopCheck(t)
    \/ \E t \in Stalers : StopSet(t)
    \/ \E t \in Stalers : StopSignal(t)
    \/ \E t \in Stalers : StopArm(t)
    \/ \E t \in Stalers : StopErr(t)
    \/ \E s \in Procs : TimerFire(s)
    \/ \E t \in Timers : TimerLock(t)
    \/ \E t \in Stalers : StalerDone(t)
    \/ \E t \in Stalers : StalerTick(t)
    \/ \E p \in Pids, k \in StoreExitKinds : ChildExit(p, k)
    \/ \E s \in Procs : KillTimerFire(s)
    \/ \E p \in Pids : WaiterWait(p)
    \/ \E p \in Pids : WaiterState(p)
    \/ \E p \in Pids : WaiterLimits(p)
    \/ \E p \in Pids : WaiterKillTimer(p)
    \/ \E p \in Pids : WaiterStale(p)
    \/ \E p \in Pids : WaiterOnExit(p)
    \/ \E p \in Pids : WaiterReconnect(p)

AddSpec == StoreInit /\ [][AddNext]_vars

FairAddSpec == AddSpec /\ WF_vars(GoSteps)

\* ------------------------------------------------------------ claims

\* the legal-transitions table of the specification (section 4.3)
TableTransitions ==
    {<<stateFinished, stateStarting>>, <<stateStarting, stateRunning>>,
     <<stateStarting, stateFailed>>, <<stateRunning, stateFinished>>,
     <<stateRunning, stateFailed>>, <<stateRunning, stateKilled>>,
     <<stateRunning, stateFinishing>>, <<stateFinishing, stateFinished>>,
     <<stateFinishing, stateFailed>>, <<stateFinishing, stateKilled>>,
     <<stateFailed, stateStarting>>, <<stateKilled, stateStarting>>}

\* C1: the state of a supervisor is always one of the six states, and every
\* committed change of state is a transition of the table.
C1_TableOnly ==
    [][\A s \in Procs :
          /\ sup'[s].state \in StateTypes
          /\ sup'[s].state # sup[s].state
                => <<sup[s].state, sup'[s].state>> \in TableTransitions]_vars


\* caller t returns from a call of Stop(wait=true) in this step: from a
\* call it was inside of, or from one that it entered in this very step
StopWaitReturns(t) ==
    /\ lastRet'[t].fn = "Stop" /\ lastRet'[t].wait
    /\ \/ th[t].pc \notin {"idle", "store_ret"} /\ th'[t].pc \in {"idle", "store_ret"}
       \/ th[t].pc = "idle" /\ th' = th /\ events' # events

\* C2: at the moment a call of Stop(wait=true) returns, the supervisor it
\* was called on is not running: its state is none of starting, running,
\* finishing.
C2_StoppedAtReturn ==
    [][\A t \in Callers :
          StopWaitReturns(t) => ~IsRunning(sup'[lastRet'[t].sup].state)]_vars

\* C3: a caller that blocks in Stop(wait=true) is released: while it waits on
\* its barrier the program lives, so that the on_exit invocation of the
\* waiter can still count the barrier down.
C3_BlockedStopIsReleased ==
    \A t \in Callers :
        th[t].pc = "stop_wait" /\ wg[th[t].wg] > 0 => ~crashed

\* C4: while the order is stop (from an explicit Stop until the next explicit
\* Start) no reconnect timer is armed, the supervisor does not go to
\* starting and no child of it is spawned.
C4_NoRestartWhileStopped ==
    [][\A s \in Procs :
          sup[s].order = "stop" /\ sup'[s].order = "stop" =>
              /\ sup'[s].timer = "armed" => sup[s].timer = "armed"
              /\ sup'[s].state = stateStarting => sup[s].state = stateStarting
              /\ \A p \in Pids :
                    child'[p].sup = s /\ child'[p].st = "alive"
                        => child[p].st = "alive"]_vars

\* supervisor s is at rest after a child exit: the state is terminal, the
\* waiters of its children are done and nobody holds or awaits its order lock
AtRest(s) ==
    /\ sup[s].state \in {stateFinished, stateFailed, stateKilled}
    /\ sup[s].states[stateStarting] > 0
    /\ sup[s].olock = NoThread
    /\ \A p \in Pids : child[p].sup = s => rw[p] \in {"none", "done"}
    /\ \A t \in Threads : th[t].sup = s => th[t].pc \in {"idle", "none", "stale_tick"}

\* C5: with reconnect enabled and the order start, a child exit is followed
\* by a new start: once the supervisor is at rest in a terminal state, the
\* reconnect timer is pending.
C5_ReconnectPending ==
    \A s \in Procs :
        sup[s].live /\ sup[s].reconn /\ sup[s].order = "start" /\ AtRest(s)
            => sup[s].timer = "armed"

\* C6: a reconnect timer is armed only with reconnect enabled and the order
\* start, and a supervisor with reconnect disabled goes to starting only
\* inside a call of Start.
C6_ArmedOnlyOnStart ==
    [][\A s \in Procs :
          /\ sup'[s].timer = "armed" /\ sup[s].timer # "armed"
                => sup[s].reconn /\ sup[s].order = "start"
          /\ ~sup[s].reconn /\ sup'[s].state = stateStarting
                /\ sup[s].state # stateStarting
                => \E t \in Callers \cup Starters :
                      th[t].sup = s /\ th[t].fn = "Start"
                          /\ th[t].pc = "start_begin"]_vars

\* supervisor s was constructed and no task of the registry holds it: it was
\* replaced by Update or its task was removed by Delete
Detached(s) ==
    s \in Procs /\ sup[s].live /\ \A id \in DOMAIN tasks : tasks[id].proc # s

\* child p is spawned in this step
Spawned(p) == child'[p].st = "alive" /\ child[p].st # "alive"

\* C7: a supervisor that Update replaced or Delete removed has no reconnect
\* timer pending and spawns no child.
C7_DetachedIsQuiet ==
    [][\A s \in Procs :
          Detached(s) =>
              /\ sup[s].timer # "armed"
              /\ \A p \in Pids : child'[p].sup = s => ~Spawned(p)]_vars

\* a successful Update of task id by caller t happens in this step: the
\* task's supervisor is replaced
Updated(t, id) ==
    /\ id \in DOMAIN tasks /\ id \in DOMAIN tasks'
    /\ tasks'[id].proc # tasks[id].proc
    /\ lastRet'[t].fn = "Update"

\* a successful Update starts the new supervisor exactly when the task was
\* running at the Update or the new config has autostart, and the new
\* supervisor's command is the one made from the new config
StartedIffRunningOrAutostart ==
    \A t \in Callers, id \in TaskIds :
        Updated(t, id) =>
            LET new == tasks'[id].proc
                wasRunning == op[t].kind = "Update" IN
            /\ th'[<<"starter", new>>].pc = "Start"
                  <=> (wasRunning \/ tasks'[id].Config.Autostart)
            /\ sup'[new].args = CreateCommand(tasks'[id].Config)

\* when a child of a task's supervisor is spawned, no child of a supervisor
\* that Update replaced is alive
OldChildGone ==
    \A p \in Pids :
        Spawned(p) /\ ~Detached(child'[p].sup) =>
            \A q \in Pids : Detached(child[q].sup) => child[q].st # "alive"

\* C8: a successful Update starts the task's new supervisor if and only if
\* the task was running at the Update or the new config has autostart, with
\* the command made from the new config, and the old child has exited before
\* the new one is spawned.
C8_UpdateRestarts == [][StartedIffRunningOrAutostart /\ OldChildGone]_vars

\* C9 as stated: every key of the registry is the ID of its task and of its
\* task's config, and an Add of a config whose ID is present returns
\* task_exists and changes neither the registry nor any supervisor.
C9_AddOnPresentId ==
    [][/\ \A id \in DOMAIN tasks' :
             tasks'[id].ID = id /\ tasks'[id].Config.ID = id
       /\ \A t \in Callers, c \in Configs :
             calls' # calls /\ Add(t, c) /\ c.ID \in DOMAIN tasks =>
                 /\ lastRet'[t].ret = "task_exists"
                 /\ UNCHANGED <<tasks, sup, th, nproc>>]_vars

\* the checks that come before the ID check in Add pass for config c
PassesChecks(c) ==
    /\ c.Input # <<>> /\ c.Output # <<>>
    /\ \A i \in 1..Len(c.Input) : ValidateInput(c.Input[i].Address)
    /\ \A i \in 1..Len(c.Output) : ValidateOutput(c.Output[i].Address)

\* C9, amended: every key of the registry is the ID of its task and of its
\* task's config; an Add of a config whose ID is present returns an error,
\* which is task_exists when the config passes the checks made before the ID
\* check, and changes neither the registry nor any supervisor.
C9_AddOnPresentIdValid ==
    [][/\ \A id \in DOMAIN tasks' :
             tasks'[id].ID = id /\ tasks'[id].Config.ID = id
       /\ \A t \in Callers, c \in Configs :
             calls' # calls /\ Add(t, c) /\ c.ID \in DOMAIN tasks =>
                 /\ lastRet'[t].ret # "nil"
                 /\ PassesChecks(c) => lastRet'[t].ret = "task_exists"
                 /\ UNCHANGED <<tasks, sup, th, nproc>>]_vars

\* an Add on a present ID returned task_exists, the task still there
C9_Witness ==
    \E t \in Callers :
        /\ lastRet[t].fn = "Add" /\ lastRet[t].ret = "task_exists"
        /\ "a" \in DOMAIN tasks /\ tasks["a"].Config.ID = "a"

\* the error the specification gives for an Add of config c
AddError(c) ==
    IF c.Input = <<>> \/ c.Output = <<>> THEN "invalid_config"
    ELSE IF \E i \in 1..Len(c.Input) : ~ValidateInput(c.Input[i].Address)
         THEN "invalid_input_address"
    ELSE IF \E i \in 1..Len(c.Output) : ~ValidateOutput(c.Output[i].Address)
         THEN "invalid_output_address"
    ELSE IF c.ID \in DOMAIN tasks THEN "task_exists"
    ELSE "nil"

\* C10: Add returns invalid_config, invalid_input_address,
\* invalid_output_address or task_exists, the first that applies in this
\* order, and on each of them the registry is unchanged, no supervisor is
\* constructed and no goroutine is started for one.
C10_AddErrors ==
    [][\A t \in Callers, c \in Configs :
          calls' # calls /\ Add(t, c) =>
              /\ lastRet'[t].ret = AddError(c)
              /\ AddError(c) # "nil" => UNCHANGED <<tasks, sup, th, nproc, child>>]_vars

\* an Add was refused for its output address while a task is registered
C10_Witness ==
    \E t \in Callers :
        /\ lastRet[t].fn = "Add" /\ lastRet[t].ret = "invalid_output_address"
        /\ DOMAIN tasks # {}

\* a call of the registry, other than Add, made by caller t with this ID
CallWithId(t, id) ==
    \/ Get(t, id)
    \/ \E c \in Configs : Update(t, id, c)
    \/ Delete(t, id)
    \/ StoreStart(t, id)
    \/ StoreStop(t, id)
    \/ Restart(t, id)

\* C11: Get, Update, Delete, Start, Stop and Restart called with an ID that is
\* not in the registry return not_found and change neither the registry map
\* nor any task, supervisor, child or goroutine
C11_UnknownIdNotFound ==
    [][\A t \in Callers, id \in TaskIds :
         calls' # calls /\ id \notin DOMAIN tasks /\ CallWithId(t, id)
           => /\ lastRet'[t].ret = "not_found"
              /\ UNCHANGED <<tasks, nproc, sup, child, npid, th, rw, exitJob, wg, nwg,
                             storeLock, op, crashed>>]_vars

\* a call on an unknown ID has returned not_found while the registry holds a
\* task whose supervisor is running
C11_Witness ==
    \E t \in Callers :
        /\ lastRet[t].ret = "not_found" /\ lastRet[t].fn = "Delete"
        /\ \E id \in DOMAIN tasks : sup[tasks[id].proc].state = stateRunning

\* the step in which Delete(id) of caller t returns successfully
Deleted(t, id) ==
    /\ th[t].pc = "store_ret" /\ op[t].kind = "Delete" /\ op[t].id = id
    /\ DeleteStopped(t)

\* C12: when Delete(id) returns successfully the ID is no longer in the
\* registry (Get(id) returns not_found) and the deleted task's supervisor is
\* not running: its child has exited before the task was removed
C12_DeletedIsStopped ==
    [][\A t \in Callers, id \in TaskIds :
         Deleted(t, id)
           => /\ id \notin DOMAIN tasks'
              /\ ~IsRunning(sup'[tasks[id].proc].state)
              /\ \A p \in Pids : child'[p].sup = tasks[id].proc => child'[p].st # "alive"]_vars

\* the step in which Restart of caller t returns
Restarted(t) ==
    /\ th[t].pc = "store_ret" /\ op[t].kind = "RestartStart"
    /\ RestartDone(t)

\* C13: when Restart(id) on an existing task returns, the supervisor's order
\* is start and its Starting counter is exactly one more than when Restart was
\* called: a fresh child lifetime has begun
C13_RestartStartsOnce ==
    [][\A t \in Callers :
         Restarted(t)
           => /\ sup'[th[t].sup].order = "start"
              /\ sup'[th[t].sup].states.starting = op[t].starting + 1]_vars

\* thread t enters Process.Start on supervisor s whose order is "start"
StartOnStart(t, s) ==
    /\ sup[s].live /\ sup[s].order = "start"
    /\ \/ th[t].pc = "Start" /\ th[t].sup = s /\ StartLock(t)
       \/ /\ t \in Callers /\ calls' # calls
          /\ \E id \in DOMAIN tasks : tasks[id].proc = s /\ StoreStart(t, id)

\* C14: Start on a supervisor whose order is already start is a no-op: it
\* returns no error at once and changes neither the state, the counters, the
\* child, the goroutines nor any timer of any supervisor
C14_StartOnStartIsNoOp ==
    [][\A t \in Callers \cup Starters, s \in Procs :
         StartOnStart(t, s)
           => /\ sup' = sup /\ child' = child /\ npid' = npid /\ rw' = rw
              /\ exitJob' = exitJob /\ tasks' = tasks
              /\ th'[t].pc \in {"idle", "none", "store_ret"}
              /\ \A u \in Threads \ {t} : th'[u] = th[u]
              /\ t \in Callers => lastRet'[t].fn = "Start" /\ lastRet'[t].ret = "nil"]_vars

\* an autostarted task whose supervisor got two Starts, the asynchronous one
\* of Add and one of a caller, and began one child lifetime: one of the two
\* found the order "start"
C14_Witness ==
    \E t \in Callers, id \in DOMAIN tasks :
        /\ tasks[id].Config.Autostart
        /\ th[<<"starter", tasks[id].proc>>].pc = "none"
        /\ th[t].pc = "idle" /\ lastRet[t].fn = "Start" /\ lastRet[t].sup = tasks[id].proc
        /\ sup[tasks[id].proc].states.starting = 1
        /\ sup[tasks[id].proc].state = stateRunning

\* the step in which cmd.Start fails inside a Start call of caller t
SpawnFails(t) ==
    /\ th[t].pc = "start_spawn" /\ th[t].fn = "Start"
    /\ StartSpawn(t, FALSE)

\* C15: when spawning the child fails, Start returns the error, the state goes
\* from starting to failed with Failed incremented once, no reader, staler or
\* sampler is started, and the reconnect timer is armed exactly when
\* reconnect is enabled
C15_SpawnFailure ==
    [][\A t \in Callers :
         SpawnFails(t)
           => LET s == th[t].sup IN
              /\ lastRet'[t].fn = "Start" /\ lastRet'[t].ret = "err"
              /\ sup[s].state = stateStarting /\ sup'[s].state = stateFailed
              /\ sup'[s].states = [sup[s].states EXCEPT !.failed = @ + 1]
              /\ rw' = rw /\ sup'[s].limits = sup[s].limits
              /\ \A u \in Stalers : th'[u] = th[u]
              /\ sup'[s].timer = "armed" <=> sup[s].reconn]_vars

\* C16: the terminal state the waiter commits is determined by how its child
\* ended, from running and from finishing: exit code 0 or 255 gives finished,
\* any other exit code failed, a signal killed; the commit returns nothing to
\* any caller
C16_TerminalStateByExit ==
    [][\A p \in Pids :
         /\ rw[p] = "rd_loop" /\ WaiterWait(p)
              => child'[p].res = Classify(child[p].exit)
         /\ rw[p] = "w_state" /\ WaiterState(p)
              => /\ sup[child[p].sup].state \in {stateRunning, stateFinishing}
                 /\ sup'[child[p].sup].state = child[p].res
                 /\ lastRet' = lastRet]_vars

\* the step in which the stop(false) of staler t sets the state
StaleStop(t) ==
    /\ th[t].pc = "stop_set" /\ StopSet(t)

\* C17: the stop a staler initiates takes the state from running to finishing
\* (or leaves it alone when its child has ended meanwhile) and leaves the
\* order unchanged; a staler runs only on a supervisor with a stale timeout
C17_StaleStop ==
    [][/\ \A t \in Stalers :
            StaleStop(t)
              => /\ \/ sup'[th[t].sup].state = sup[th[t].sup].state
                    \/ /\ sup[th[t].sup].state = stateRunning
                       /\ sup'[th[t].sup].state = stateFinishing
                 /\ sup'[th[t].sup].order = sup[th[t].sup].order
       /\ \A t \in Stalers :
            th'[t].pc # "none" => th'[t].sup \in Procs /\ sup'[th'[t].sup].staleOn]_vars

\* a reader that feeds a fresh parser, with a ring of one line, with any
\* lines
ParseInit == StoreInitWith(New(1))

ParseNext == (\E line \in Lines : ReaderLine(line)) \/ ResetStats

ParseSpec == ParseInit /\ [][ParseNext]_vars

\* C18: Parse returns a non-zero value for every line that carries "frame="
\* with a frame number, the number 0 included, and 0 for every other line, so
\* that the reader resets the stale clock on exactly the progress lines
C18_ParseFlagsProgress ==
    [][\A line \in Lines :
         ReaderLine(line)
           => /\ parser'.n # 0 <=> (isProgress(line) /\ FindFrame(line) >= 0)
              /\ parser'.staleReset <=> (isProgress(line) /\ FindFrame(line) >= 0)]_vars

\* C19: the callback Config.OnExit is called once for every child that was
\* spawned and has exited, once the waiter's goroutine for it has run, also
\* with barriers of Stop(wait=true) chained onto it; it is never called, nor
\* about to be called, for a failed spawn; and a child that had exited when
\* the program died had its callback
C19_OnExitOnce ==
    \A p \in Pids :
        /\ exitJob[p].ran <= 1
        /\ child[p].st \in {"none", "new", "nospawn", "alive"}
              => ~exitJob[p].pending /\ exitJob[p].ran = 0
        /\ rw[p] \in {"w_lock", "done"} /\ ~exitJob[p].pending => exitJob[p].ran = 1
        /\ crashed /\ child[p].st \in {"zombie", "reaped"} => exitJob[p].ran = 1

\* the registry right after a successful Add, its only call so far
AfterAdd(t, id) ==
    /\ calls = 1 /\ lastRet[t].fn = "Add" /\ lastRet[t].ret = "nil"
    /\ id \in DOMAIN tasks

\* after Add with autostart the task's order is start and the asynchronous
\* Start is pending or has acted; after Add without autostart the order is
\* stop, the supervisor is in finished with all counters zero, and it has no
\* child as long as no other call is made
AddStored ==
    \A t \in Callers, id \in TaskIds :
        AfterAdd(t, id) =>
            LET T == tasks[id]
                P == sup[T.proc]
                starter == th[<<"starter", T.proc>>] IN
            IF T.Config.Autostart
            THEN /\ T.Order = "start"
                 /\ starter.pc # "none" \/ P.states.starting >= 1
            ELSE /\ T.Order = "stop" /\ P.order = "stop"
                 /\ P.state = stateFinished /\ P.states = ZeroStates
                 /\ starter.pc = "none"
                 /\ \A p \in Pids : child[p].sup # T.proc

\* C20: Add with autostart = true stores the task with order start and its
\* supervisor is started asynchronously and reaches running (or failed); Add
\* with autostart = false stores the task with order stop, the supervisor in
\* finished with all counters zero, and no child is spawned until a Start
\* (a Start that finds all MaxPid commands used cannot go on)
C20_AddAutostart ==
    /\ []AddStored
    /\ \A s \in Procs :
         (th[<<"starter", s>>].pc = "Start")
            ~> \/ sup[s].states.running >= 1 \/ sup[s].states.failed >= 1
               \/ npid = MaxPid

\* an autostarted task whose supervisor has reached running
C20_Witness ==
    \E t \in Callers, id \in TaskIds :
        /\ AfterAdd(t, id) /\ tasks[id].Config.Autostart
        /\ th[<<"starter", tasks[id].proc>>].pc = "none"
        /\ sup[tasks[id].proc].state = stateRunning

\* a reader that feeds a fresh parser with progress lines and other lines;
\* the ring and the progress are reset at any time
SomeLines == {<<>>, <<"x">>, <<"frame=", "7">>, <<"frame=", "0">>}

LogInit == StoreInit

LogNext == (\E line \in SomeLines : ReaderLine(line)) \/ ResetStats \/ ResetLog

LogSpec == LogInit /\ [][LogNext]_vars

\* the last n elements of a sequence
LastN(q, n) == IF Len(q) <= n THEN q ELSE SubSeq(q, Len(q) - n + 1, Len(q))

\* Log() holds the last min(K, C) of the K lines parsed since ResetLog, in
\* the order of their parsing
LogIsTail ==
    LET L == Log(parser)
        K == parser.now - parser.logStart
        C == parser.logLines IN
    /\ Len(L) = IF K < C THEN K ELSE C
    /\ \A i \in 1..Len(L) : L[i].Timestamp = parser.now - Len(L) + i

\* C22: with a ring of capacity C and K lines parsed since the last ResetLog,
\* Log() is the last min(K, C) of those lines, oldest first: every parsed
\* line, progress line or not, becomes the newest entry, the entries before
\* it stay as they were, and the oldest is dropped when the ring is full.
C22_LogKeepsLastLines ==
    /\ []LogIsTail
    /\ [][\A line \in SomeLines :
            ReaderLine(line)
              => Log(parser') =
                   LastN(Append(Log(parser),
                                [Timestamp |-> parser'.now, Data |-> line]),
                         parser.logLines)]_vars

\* more lines were parsed than the ring holds, the last one a progress line
\* that pushed out a line that is none
C22_Witness ==
    /\ parser.now - parser.logStart > parser.logLines
    /\ Len(Log(parser)) = parser.logLines
    /\ isProgress(parser.line)
    /\ ~isProgress(Log(parser)[1].Data)

\* C23: when Parse of a progress line that carries "frame=N" returns a
\* non-zero value, that value is N and Progress().frame is N, whatever was
\* parsed before.
C23_ParseReturnsFrame ==
    [][\A line \in Lines :
         (ReaderLine(line) /\ FindFrame(line) >= 0 /\ parser'.n # 0)
           => /\ parser'.n = FindFrame(line)
              /\ Progress(parser').Frame = FindFrame(line)]_vars

\* configs with one or two inputs and outputs, with and without options, one
\* of them with the address "-i" and one with the option "-i"; none starts
\* by itself
CmdInputs ==
    {<<[Address |-> "in", Options |-> <<>>]>>,
     <<[Address |-> "in", Options |-> <<"-re">>], [Address |-> "in2", Options |-> <<>>]>>,
     <<[Address |-> "in2", Options |-> <<>>], [Address |-> "in", Options |-> <<"-re">>]>>,
     <<[Address |-> "-i", Options |-> <<>>]>>,
     <<[Address |-> "in", Options |-> <<"-i">>]>>}
CmdOutputs ==
    {<<[Address |-> "out1", Options |-> <<>>]>>,
     <<[Address |-> "out2", Options |-> <<"-c:v">>], [Address |-> "out1", Options |-> <<>>]>>,
     <<[Address |-> "out1", Options |-> <<"-an">>]>>}
CmdConfigs ==
    [ID : {"a"}, Input : CmdInputs, Output : CmdOutputs,
     Options : {<<>>, <<"-y">>}, Reconnect : {FALSE}, Autostart : {FALSE},
     StaleTimeout : {0}]

\* a registry whose callers add and update such configs: Add and Update hand
\* CreateCommand() of the config to the new supervisor
CmdNext ==
    \/ \E t \in Callers, c \in CmdConfigs : Add(t, c)
    \/ \E t \in Callers, id \in TaskIds, c \in CmdConfigs : Update(t, id, c)

CmdSpec == StoreInit /\ [][CmdNext]_vars

\* the length of the arguments of the first k inputs, and of the first k
\* outputs
RECURSIVE inWidth(_, _)
inWidth(ins, k) ==
    IF k = 0 THEN 0 ELSE inWidth(ins, k - 1) + Len(ins[k].Options) + 2

RECURSIVE outWidth(_, _)
outWidth(outs, k) ==
    IF k = 0 THEN 0 ELSE outWidth(outs, k - 1) + Len(outs[k].Options) + 1

\* cmd is: the global options, then for each input in order its options,
\* "-i" and its address, then for each output in order its options and its
\* address
IsCommandOf(cmd, c) ==
    LET g == Len(c.Options)
        gi == g + inWidth(c.Input, Len(c.Input)) IN
    /\ Len(cmd) = gi + outWidth(c.Output, Len(c.Output))
    /\ \A m \in 1..g : cmd[m] = c.Options[m]
    /\ \A k \in 1..Len(c.Input) :
         LET o == g + inWidth(c.Input, k - 1)
             n == Len(c.Input[k].Options) IN
         /\ \A m \in 1..n : cmd[o + m] = c.Input[k].Options[m]
         /\ cmd[o + n + 1] = "-i"
         /\ cmd[o + n + 2] = c.Input[k].Address
    /\ \A k \in 1..Len(c.Output) :
         LET o == gi + outWidth(c.Output, k - 1)
             n == Len(c.Output[k].Options) IN
         /\ \A m \in 1..n : cmd[o + m] = c.Output[k].Options[m]
         /\ cmd[o + n + 1] = c.Output[k].Address

\* the words of a config: its options, and its addresses
OptionsOf(c) ==
    {c.Options[m] : m \in 1..Len(c.Options)}
    \cup UNION {{io.Options[m] : m \in 1..Len(io.Options)} :
                  io \in {c.Input[k] : k \in 1..Len(c.Input)}
                         \cup {c.Output[k] : k \in 1..Len(c.Output)}}

AddressesOf(c) ==
    {c.Input[k].Address : k \in 1..Len(c.Input)}
    \cup {c.Output[k].Address : k \in 1..Len(c.Output)}

OneDashIPerInput(cmd, c) ==
    Cardinality({m \in 1..Len(cmd) : cmd[m] = "-i"}) = Len(c.Input)

\* the command of every task is the command of its config
CommandsBuilt ==
    \A id \in DOMAIN tasks : IsCommandOf(sup[tasks[id].proc].args, tasks[id].Config)

\* an Update with a config equal to the task's builds an equal command
SameConfigSameCommand ==
    [][\A id \in DOMAIN tasks :
         (id \in DOMAIN tasks' /\ tasks'[id].proc # tasks[id].proc
            /\ tasks'[id].Config = tasks[id].Config)
           => sup'[tasks'[id].proc].args = sup[tasks[id].proc].args]_vars

\* C24 as stated: the command is the global options, the inputs' options
\* with "-i" and address, the outputs' options with address, equal for equal
\* configs, and it holds exactly one "-i" per input when no option is "-i".
C24_CommandAsStated ==
    /\ [](CommandsBuilt
          /\ \A id \in DOMAIN tasks :
               "-i" \notin OptionsOf(tasks[id].Config)
                 => OneDashIPerInput(sup[tasks[id].proc].args, tasks[id].Config))
    /\ SameConfigSameCommand

\* C24: the same, with exactly one "-i" per input when neither an option nor
\* an address is "-i".
C24_CommandOfConfig ==
    /\ [](CommandsBuilt
          /\ \A id \in DOMAIN tasks :
               "-i" \notin OptionsOf(tasks[id].Config) \cup AddressesOf(tasks[id].Config)
                 => OneDashIPerInput(sup[tasks[id].proc].args, tasks[id].Config))
    /\ SameConfigSameCommand

\* a task that was updated with its own config, of two inputs with options
C24_Witness ==
    \E id \in DOMAIN tasks :
        /\ tasks[id].proc = 2
        /\ Len(tasks[id].Config.Input) = 2
        /\ tasks[id].Config.Options # <<>>
        /\ sup[1].args = sup[2].args

\* the children of supervisor s that were spawned
SpawnedOf(s) ==
    {p \in Pids : child[p].sup = s /\ child[p].st \notin {"none", "new", "nospawn"}}

\* supervisor s is in a terminal state and the waiter of its last child has
\* completed
AtRestAfterLastChild(s) ==
    /\ sup[s].live /\ ~IsRunning(sup[s].state)
    /\ SpawnedOf(s) # {}
    /\ \A p \in SpawnedOf(s) : (\A q \in SpawnedOf(s) : q <= p) => rw[p] = "done"

\* child c of supervisor s is running, and the progress is that of its lines
ProgressOfRunning(s, c) ==
    /\ sup[s].live /\ sup[s].cmd = c /\ child[c].sup = s /\ child[c].st = "alive"
    /\ sup[s].state \in {stateRunning, stateFinishing}
    /\ sup[s].prog = c

\* C25: the progress is all-zero whenever the supervisor is in a terminal
\* state and the waiter of its last child has completed; lines of a child
\* are parsed only after its reader has reset the progress; and the progress
\* of a running child is changed by nothing but lines of that child.
C25_ProgressOfOneLifetime ==
    /\ [](\A s \in Procs : AtRestAfterLastChild(s) => sup[s].prog = 0)
    /\ [][\A p \in Pids :
            (child'[p].rd = "lines" /\ child[p].rd # "lines") => child[p].rd = "reset"]_vars
    /\ [][\A s \in Procs, c \in Pids :
            ProgressOfRunning(s, c) => sup'[s].prog = c]_vars

\* C26: the reader of every spawned child empties the ring before it parses
\* a line of the child, so the ring never holds lines of two children, nor the
\* error line of a failed spawn or failed stop together with lines of a child
\* spawned later.
C26_LogOfOneLifetime ==
    /\ [](\A s \in Procs : \A a \in sup[s].log, b \in sup[s].log :
            /\ (a > 0 /\ b > 0) => a = b
            /\ (a > 0 /\ b < 0) => a <= 0 - b)
    /\ [][\A p \in Pids :
            ~(/\ child[p].rd = "none"
              /\ child'[p].sup \in Procs
              /\ p \in sup'[child'[p].sup].log)]_vars

\* what a call of setState(to) on supervisor s did, seen from outside
Refused(s) ==
    /\ probe'.err /\ probe'.fired = <<>>
    /\ sup'[s].state = sup[s].state /\ sup'[s].time = sup[s].time
    /\ sup'[s].states = sup[s].states

Committed(s, to) ==
    /\ ~probe'.err /\ sup'[s].state = to
    /\ probe'.fired = <<[from |-> sup[s].state, to |-> to]>>

\* C27: a call of setState whose change is not in the table of legal
\* transitions returns an error, leaves state, time and counters as they were
\* and runs no callback; any other call runs onStateChange once, with the
\* states before and after.
C27_IllegalIsRefused ==
    [][\A s \in Procs, to \in StateTypes :
         SetStateCall(s, to)
           => IF <<sup[s].state, to>> \in TableTransitions
              THEN Committed(s, to) ELSE Refused(s)]_vars

\* C28: every counter is the number of committed transitions into its state
\* since New, which the onStateChange callbacks tell: a committed transition
\* adds one to the counter of its destination and to no other, a refused one
\* adds nothing, and New counts nothing.
C28_CountersCountCommits ==
    /\ [](\A s \in Procs : sup[s].live => sup[s].states = probe.seen)
    /\ [][\A s \in Procs, to \in StateTypes :
            SetStateCall(s, to)
              => sup'[s].states = IF probe'.err THEN sup[s].states
                                  ELSE [sup[s].states EXCEPT ![to] = @ + 1]]_vars

\* the last call was refused, after the supervisor went through failed and
\* started again
C28_Witness ==
    /\ probe.err /\ sup[1].states.starting = 2 /\ sup[1].states.failed = 1
    /\ sup[1].state = stateRunning

\* C29: a caller that is blocked in wg.Wait() until the child has exited
\* holds neither the registry lock nor the order lock of the supervisor (the
\* state lock is held only inside getState and setState), so that Get, List
\* and Status, which take these locks, need not wait for the child.
C29_NoLockWhileWaiting ==
    \A t \in Callers :
        th[t].pc = "stop_wait"
          => /\ storeLock # t
             /\ sup[th[t].sup].olock # t

\* a caller's Start or Stop on supervisor s returns in this step, at once or
\* after start() or stop() ran; a Start that failed is left out, because its
\* start() has armed a new timer.  (The timer is armed under the order lock
\* only, so a timer that is armed when the call returns was armed before it.)
StartOrStopReturns(t, s) ==
    \/ /\ th[t].pc \notin {"idle", "store_ret"} /\ th[t].fn \in {"Start", "Stop"}
       /\ th[t].sup = s /\ th'[t].pc = "idle"
       /\ ~(th[t].fn = "Start" /\ lastRet'[t].ret = "err")
    \/ /\ th[t].pc = "idle" /\ th' = th /\ events' = events + 1
       /\ lastRet'[t].fn \in {"Start", "Stop"} /\ lastRet'[t].sup = s

\* C30: when an explicit Start or Stop returns, no reconnect timer that was
\* armed before the call is still pending.
C30_NoTimerAfterCall ==
    [][\A t \in Callers, s \in Procs :
          StartOrStopReturns(t, s) => sup'[s].timer # "armed"]_vars

\* a caller's Stop(wait = TRUE) on supervisor s, called while a child of s
\* was running, returns nil in this step: after wg.Wait(), or at once
\* because the state is finishing, or at once because the order is "stop"
StopTrueReturns(t, s) ==
    \/ /\ th[t].pc \in {"stop_wait", "stop_check"} /\ th[t].fn = "Stop"
       /\ th[t].wait /\ th[t].sup = s
       /\ th'[t].pc \in {"idle", "store_ret"}
    \/ /\ th[t].pc = "idle" /\ th' = th /\ events' = events + 1
       /\ lastRet'[t] = [fn |-> "Stop", wait |-> TRUE, ret |-> "nil", sup |-> s]
       /\ IsRunning(sup[s].state)

\* C21: when a Stop(wait = TRUE) called for a running child returns, the
\* sampler is detached (Current() gives (0, 0)).
C21_StopDetachesSampler ==
    [][\A t \in Callers, s \in Procs :
          StopTrueReturns(t, s) => sup'[s].limits = 0]_vars

\* caller t is inside a call of Kill on supervisor s
InKill(t, s) ==
    /\ th[t].fn = "Kill" /\ th[t].sup = s
    /\ th[t].pc \notin {"idle", "store_ret"}

\* a call of Kill by caller t on supervisor s, which is not running, returns
\* in this step: at once, or from stop() after the order was locked
KillOnStopped(t, s) ==
    \/ /\ th[t].pc = "idle" /\ th' = th /\ events' = events + 1
       /\ lastRet'[t].fn = "Kill" /\ lastRet'[t].sup = s
    \/ /\ InKill(t, s) /\ th[t].pc = "stop_begin"
       /\ ~IsRunning(sup[s].state)
       /\ th'[t].pc \in {"idle", "store_ret"}

\* C31: no step taken while a caller is inside Kill changes the order, and a
\* Kill that finds the supervisor not running changes nothing of it: a
\* reconnect timer that is pending stays pending.
C31_KillKeepsOrder ==
    [][\A t \in Callers, s \in Procs :
          /\ InKill(t, s) => sup'[s].order = sup[s].order
          /\ KillOnStopped(t, s) => sup'[s] = Unlock(t, sup[s])]_vars

\* C32: a supervisor goes to starting, and a child of it is spawned, only
\* while its order is start.
C32_StartingOnlyOnStart ==
    [][\A s \in Procs :
          /\ sup'[s].state = stateStarting /\ sup[s].state # stateStarting
                => sup[s].order = "start"
          /\ \A p \in Pids :
                child'[p].sup = s /\ Spawned(p) => sup[s].order = "start"]_vars

\* the onExit of child p's waiter runs in this step
OnExitRuns(p) == exitJob[p].pending /\ ~exitJob'[p].pending

\* C33: the barrier of a Stop(wait = TRUE) is released once: the onExit that
\* runs at the exit of a child never calls Done() on a barrier that was
\* released before, the barrier of an earlier Stop that has returned.
C33_BarrierReleasedOnce ==
    [][\A p \in Pids :
          OnExitRuns(p) => ~chainPanics(exitJob[p].chain, wg)]_vars

\* the waiter of child p takes one of its steps after the terminal state
\* while a newer child c of the same supervisor lives
OldWaiterSteps(p, c) ==
    /\ rw[p] \in {"w_limits", "w_kill", "w_stale", "w_exit"} /\ rw'[p] # rw[p]
    /\ c # p /\ sup[child[p].sup].cmd = c /\ child[c].st = "alive"

\* C34: the waiter of an exited child leaves the sampler, the staler, the
\* kill timer and the progress of a newer child alone, and whenever the
\* state is running the sampler is attached to the current child.
C34_WaiterOfItsChild ==
    /\ [][\A p \in Pids, c \in Pids :
            OldWaiterSteps(p, c) =>
                LET s == child[p].sup IN
                /\ sup'[s].limits = sup[s].limits
                /\ sup'[s].killTimer = sup[s].killTimer
                /\ sup'[s].staleCancel = sup[s].staleCancel
                /\ child'[c].ctx = child[c].ctx
                /\ sup'[s].prog = sup[s].prog]_vars
    /\ [](\A s \in Procs :
            sup[s].live /\ sup[s].state = stateRunning
                => sup[s].limits = sup[s].cmd)

\* the kill timer that stop() armed for child k of supervisor s expires in
\* this step
KillTimerFires(s, k) ==
    \/ /\ sup[s].killTimer = [st |-> "armed", for |-> k]
       /\ sup'[s].killTimer = NoKillTimer /\ rw' = rw
    \/ k \in sup[s].leaked /\ k \notin sup'[s].leaked

\* a kill timer for child k of supervisor s is pending
KillTimerPending(s, k) ==
    sup[s].killTimer = [st |-> "armed", for |-> k] \/ k \in sup[s].leaked

\* C35: a kill timer armed while stopping child k, when it expires, kills no
\* other child and breaks nothing, and none is pending once the waiter of k
\* has committed the terminal state and completed.
C35_KillTimerOfItsChild ==
    /\ [][\A s \in Procs, k \in Pids :
            KillTimerFires(s, k) =>
                /\ \A c \in Pids \ {k} : child'[c] = child[c]
                /\ crashed' = crashed]_vars
    /\ [](\A k \in Pids :
            rw[k] = "done" => ~KillTimerPending(child[k].sup, k))

\* the children of supervisor s that live
LiveOf(s) == {p \in Pids : child[p].sup = s /\ child[p].st = "alive"}

\* C36: a supervisor has at most one live child; it has none while its state
\* is terminal; and a child is spawned only in state starting.
C36_OneLiveChild ==
    /\ [](\A s \in Procs :
            /\ Cardinality(LiveOf(s)) <= 1
            /\ sup[s].live /\ ~IsRunning(sup[s].state) => LiveOf(s) = {})
    /\ [][\A p \in Pids :
            Spawned(p) => sup[child'[p].sup].state = stateStarting]_vars

\* Starting - (Finished + Failed + Killed) of the counters N
InFlight(N) ==
    N[stateStarting] - (N[stateFinished] + N[stateFailed] + N[stateKilled])

\* C37: in every state of a supervisor, Starting - (Finished + Failed +
\* Killed) is 1 when the state is starting, running or finishing and 0
\* otherwise, and Running <= Starting and Finishing <= Starting.
C37_CountersBalance ==
    \A s \in Procs :
        sup[s].live =>
            LET N == sup[s].states IN
            /\ InFlight(N) = IF IsRunning(sup[s].state) THEN 1 ELSE 0
            /\ N[stateRunning] <= N[stateStarting]
            /\ N[stateFinishing] <= N[stateStarting]

\* a second child runs after the first one was stopped and its spawn or its
\* stop had gone through finishing
C37_Witness ==
    \E s \in Procs :
        /\ sup[s].live /\ sup[s].state = stateRunning
        /\ sup[s].states[stateStarting] = 2
        /\ sup[s].states[stateFinishing] = 1

\* the Update of caller t returns an address error in this step
UpdateFails(t) ==
    /\ lastRet'[t].fn = "Update"
    /\ lastRet'[t].ret \in {"invalid_input_address", "invalid_output_address"}
    /\ calls' = calls + 1 \/ (op[t].kind = "Update" /\ op'[t].kind = "none")

\* caller t takes a step inside an Update that is going to return an
\* address error
FailingUpdateSteps(t) ==
    /\ op[t].kind = "Update" /\ updateResult(op[t].cfg) # "nil"
    /\ th'[t] # th[t]

\* C38: an Update that returns an address error changes neither the registry
\* nor the task's supervisor: no step of it changes the order or the state of
\* the supervisor, and nothing is changed when it returns.
C38_FailedUpdateKeepsTask ==
    [][\A t \in Callers :
          /\ FailingUpdateSteps(t) =>
                LET s == tasks[op[t].id].proc IN
                /\ sup'[s].order = sup[s].order
                /\ sup'[s].state = sup[s].state
          /\ UpdateFails(t) => tasks' = tasks /\ sup' = sup]_vars

\* a call of Start by caller t on supervisor s returns at once in this step,
\* without start() being reached
StartDoesNothing(t, s) ==
    /\ th[t].pc = "idle" /\ th' = th /\ events' = events + 1
    /\ lastRet'[t].fn = "Start" /\ lastRet'[t].sup = s

\* C39: an explicit Start on a supervisor at rest in a terminal state, with
\* no reconnect timer pending, goes on to spawn a child: it does not return
\* at once.
C39_StartFromTerminal ==
    [][\A t \in Callers, s \in Procs :
          sup[s].live /\ AtRest(s) /\ sup[s].timer # "armed"
              => ~StartDoesNothing(t, s)]_vars

====
